---------------------------- MODULE Spec2Model ----------------------------
(***************************************************************************)
(* PhD-opportunity browser: the hash helpers, the compatibility scorer,    *)
(* the keyword extractor and the filter / sort function of the             *)
(* Opportunities page, modelled from src/searchService.js and              *)
(* src/OpportunityCard.jsx.                                                *)
(*                                                                         *)
(* Strings are sequences of UTF-16 code units (naturals), so that          *)
(* charCodeAt, toLowerCase, includes, split and replace are computed on    *)
(* the characters.  JavaScript numbers that hold integers wider than TLC's *)
(* own integers are kept in two limbs, value = hi * 2^16 + lo with         *)
(* 0 <= lo < 2^16, hi signed (see Num).                                    *)
(***************************************************************************)
EXTENDS Integers, Sequences, FiniteSets, TLC

VARIABLES
    fn,             \* the function under call, or the component on screen
    arg,            \* its argument(s); on the page, the last call that set savedOpportunities
    ret,            \* its outcome: pending, a value, or a raised TypeError
    opportunities,  \* state of the Opportunities page (lines 500-517)
    loading,
    error,
    searchQuery,
    sortedScores,   \* Map: opportunity id -> score
    savedOpportunities,
    filters,
    sortBy,
    showFilterMenu,
    pending,        \* the requests whose simulated delay has not elapsed, oldest first
    storedProfile,  \* localStorage item 'userProfile'
    everStored,     \* history: every <<id, score>> setSortedScores has stored
    displayed       \* history: where opportunities came from: "none", "all", "search", "saved"

callVars == <<fn, arg, ret>>
panelVars == <<filters, sortBy, showFilterMenu>>
savedVars == <<savedOpportunities, displayed>>
pageVars ==
    <<opportunities, loading, error, searchQuery, sortedScores, pending, storedProfile, everStored,
      savedOpportunities, displayed, filters, sortBy, showFilterMenu>>
vars == <<fn, arg, ret, opportunities, loading, error, searchQuery, sortedScores, pending,
          storedProfile, everStored, savedOpportunities, displayed, filters, sortBy, showFilterMenu>>

-----------------------------------------------------------------------------
(* Bounds of the model *)

\* longest string enumerated exhaustively over HashAlphabet
MaxStrLen == 3
\* longest userProfile.interests array
MaxInterests == 2
\* longest opportunity.subjects array
MaxSubjects == 3
\* most words in an opportunity title
MaxTitleWords == 2
\* longest opportunities array handed to getSortedAndFilteredOpportunities
MaxOpps == 2
\* most requests of the page in flight at once
MaxPending == 2
\* most opportunities saved at once
MaxSaved == 2
\* the cards of the list the user reaches
MaxCards == 2
\* most days between a deadline and the day a card is rendered
MaxDaysApart == 31
\* most events already stored under 'calendarEvents'
MaxEvents == 2

-----------------------------------------------------------------------------
(* Optional values: absent (undefined / null) or present *)

None == <<>>
Some(x) == <<x>>
IsSome(o) == Len(o) = 1
Get(o) == o[1]

\* all sequences over S of length at most n
SeqsUpTo(S, n) == UNION {[1..k -> S] : k \in 0..n}

\* lines 508-514: the filters a new page has (subjects: [] is never changed)
InitialFilters ==
    [fullyFunded |-> FALSE, international |-> FALSE, hasDeadline |-> FALSE,
     hasSupervisor |-> FALSE, subjects |-> <<>>]

\* the page as constructed (lines 500-517) with nothing saved in localStorage,
\* before it is mounted: the state the page is in while a function is
\* checked on its own
PageIdle ==
    /\ opportunities = <<>>
    /\ loading = FALSE
    /\ error = None
    /\ searchQuery = <<>>
    /\ sortedScores = <<>>
    /\ savedOpportunities = <<>>
    /\ filters = InitialFilters
    /\ sortBy = "date"
    /\ showFilterMenu = FALSE
    /\ pending = <<>>
    /\ storedProfile = None
    /\ everStored = {}
    /\ displayed = "none"

-----------------------------------------------------------------------------
(* Integers as JavaScript numbers: value = hi * 2^16 + lo *)

Base == 2^16

Num(hi, lo) == [hi |-> hi, lo |-> lo]
NumOf(n) == Num(n \div Base, n % Base)
NumZero == Num(0, 0)
NumIsNeg(a) == a.hi < 0
NumAdd(a, b) == Num(a.hi + b.hi + ((a.lo + b.lo) \div Base), (a.lo + b.lo) % Base)
NumNeg(a) == IF a.lo = 0 THEN Num(-a.hi, 0) ELSE Num(-a.hi - 1, Base - a.lo)
NumSub(a, b) == NumAdd(a, NumNeg(b))
\* a * k for a small natural k
NumMul(a, k) == Num(a.hi * k + ((a.lo * k) \div Base), (a.lo * k) % Base)
\* a mod m for a >= 0 and a small natural m, as a plain integer
NumMod(a, m) == (((a.hi % m) * (Base % m)) + a.lo) % m
\* well-formed integer
IsNum(a) == a.lo \in 0..(Base - 1) /\ a.hi \in Int

\* ToInt32 of ECMAScript (the result of x | 0, x & x, and of the operands of <<)
ToInt32(a) == Num(((a.hi + 2^15) % Base) - 2^15, a.lo)
\* x << k
ShiftLeft(a, k) == ToInt32(NumMul(ToInt32(a), 2^k))
\* Math.abs
MathAbs(a) == IF NumIsNeg(a) THEN NumNeg(a) ELSE a
\* x % m of JavaScript (the sign of the dividend), m a small natural
JsRem(a, m) == IF NumIsNeg(a) THEN -NumMod(NumNeg(a), m) ELSE NumMod(a, m)
\* Math.abs, Math.min, Math.max on plain integers
Abs(n) == IF n < 0 THEN -n ELSE n
Min(a, b) == IF a < b THEN a ELSE b
Max(a, b) == IF a > b THEN a ELSE b

-----------------------------------------------------------------------------
(* Strings *)

\* String.prototype.toLowerCase on one code unit (ASCII letters)
LowerChar(c) == IF c >= 65 /\ c <= 90 THEN c + 32 ELSE c
ToLowerCase(s) == [i \in 1..Len(s) |-> LowerChar(s[i])]

\* String.prototype.includes
Includes(s, t) ==
    \E k \in 0..(Len(s) - Len(t)) : \A i \in 1..Len(t) : s[k + i] = t[i]

Str_user123 == <<117, 115, 101, 114, 49, 50, 51>>  \* "user123"
Str_dash == <<45>>                                  \* "-"

-----------------------------------------------------------------------------
(* hashCode, src/OpportunityCard.jsx 688-696 *)

\* one turn of the loop:
\*   hash = ((hash << 5) - hash) + char;  hash = hash & hash;
HashStepShift4(hash, char) ==
    ToInt32(NumAdd(NumSub(ShiftLeft(hash, 4), hash), NumOf(char)))
HashStep(hash, char) ==
    ToInt32(NumAdd(NumSub(ShiftLeft(hash, 5), hash), NumOf(char)))

\* for (let i = 0; i < str.length; i++): the accumulator is an int32 after every
\* turn (the test also makes TLC evaluate it before the next turn, not at the end)
RECURSIVE HashLoop(_, _, _)
HashLoop(str, i, hash) ==
    IF i > Len(str) THEN hash
    ELSE LET next == HashStep(hash, str[i])
         IN  IF IsNum(next) THEN HashLoop(str, i + 1, next) ELSE next

\* the accumulator when the loop ends
HashAccumulator(str) == HashLoop(str, 1, NumZero)

HashCodeNoAbs(str) == HashAccumulator(str)
HashCode(str) == MathAbs(HashAccumulator(str))

-----------------------------------------------------------------------------
(* generateScore, src/searchService.js 121-128 and 257-265 *)

\* Math.abs(hash % 100), with hash the same accumulator (hash |= 0 is ToInt32)
GenerateScoreFlooredMod(str) ==
    LET h == HashAccumulator(str)
    IN  IF NumIsNeg(h) THEN (100 - NumMod(NumNeg(h), 100)) % 100
        ELSE NumMod(h, 100)
GenerateScore(str) == Abs(JsRem(HashAccumulator(str), 100))

-----------------------------------------------------------------------------
(* calculateCompatibilityScore, src/searchService.js 250-291 *)

\* An opportunity argument is None (null) or Some of
\*   [id |-> string, subjects |-> [kind |-> "absent" | "array" | "string", items |-> ...]]
\* (an array of strings, or one comma-delimited string kept as items[1]).
\* A userProfile argument is None or Some of
\*   [id |-> None | Some(string), interests |-> [kind |-> "absent" | "array", items |-> ...]].

\* JavaScript truthiness of the subjects / interests field
Truthy(field) ==
    CASE field.kind = "absent" -> FALSE
      [] field.kind = "array"  -> TRUE
      [] field.kind = "string" -> Len(field.items[1]) > 0

\* userProfile.id || 'user123'
UserIdOrDefault(userProfile) ==
    IF IsSome(userProfile.id) /\ Len(Get(userProfile.id)) > 0
    THEN Get(userProfile.id) ELSE Str_user123

\* `${oppId}-${userId}`
Combined(oppId, userId) == oppId \o Str_dash \o userId

\* the inner loop: for (const subject of oppSubjects) ... interestBonus += 5
RECURSIVE SubjectLoop(_, _, _, _)
SubjectLoop(interest, oppSubjects, j, bonus) ==
    IF j > Len(oppSubjects) THEN bonus
    ELSE SubjectLoop(interest, oppSubjects, j + 1,
            IF Includes(oppSubjects[j], interest) \/ Includes(interest, oppSubjects[j])
            THEN bonus + 5 ELSE bonus)

\* the outer loop: for (const interest of userInterests)
RECURSIVE InterestLoop(_, _, _, _)
InterestLoop(userInterests, oppSubjects, i, bonus) ==
    IF i > Len(userInterests) THEN bonus
    ELSE InterestLoop(userInterests, oppSubjects, i + 1,
            SubjectLoop(userInterests[i], oppSubjects, 1, bonus))

\* .map(s => s.toLowerCase())
MapToLowerCase(items) == [k \in 1..Len(items) |-> ToLowerCase(items[k])]

ScoreValue(val, baseScore, interestBonus) ==
    [kind |-> "value", val |-> val, baseScore |-> baseScore, interestBonus |-> interestBonus]
\* opportunity.subjects.map is not a function
ScoreTypeError(baseScore) ==
    [kind |-> "raise", val |-> -1, baseScore |-> baseScore, interestBonus |-> 0]
ScorePending ==
    [kind |-> "pending", val |-> -1, baseScore |-> -1, interestBonus |-> -1]

\* Math.min(interestBonus, 20), then Math.min(Math.max(baseScore + interestBonus, 0), 100)
FinalScoreNoCap(baseScore, interestBonus) ==
    ScoreValue(Min(Max(baseScore + interestBonus, 0), 100), baseScore, interestBonus)
FinalScore(baseScore, interestBonus) ==
    LET capped == Min(interestBonus, 20)
    IN  ScoreValue(Min(Max(baseScore + capped, 0), 100), baseScore, capped)

\* lines 253-290, both arguments given
ScoreBody(opportunity, userProfile) ==
    LET baseScore == GenerateScore(Combined(opportunity.id, UserIdOrDefault(userProfile)))
    IN  IF Truthy(userProfile.interests) /\ Truthy(opportunity.subjects)
        THEN IF opportunity.subjects.kind # "array"
             THEN ScoreTypeError(baseScore)
             ELSE FinalScore(baseScore,
                     InterestLoop(MapToLowerCase(userProfile.interests.items),
                                  MapToLowerCase(opportunity.subjects.items), 1, 0))
        ELSE FinalScore(baseScore, 0)

CalculateCompatibilityScoreNoProfileCheck(opportunity, userProfile) ==
    IF ~IsSome(opportunity) THEN ScoreValue(50, -1, -1)
    ELSE IF ~IsSome(userProfile) THEN ScoreTypeError(-1)
    ELSE ScoreBody(Get(opportunity), Get(userProfile))
CalculateCompatibilityScore(opportunity, userProfile) ==
    IF ~IsSome(opportunity) \/ ~IsSome(userProfile)
    THEN ScoreValue(50, -1, -1)
    ELSE ScoreBody(Get(opportunity), Get(userProfile))

-----------------------------------------------------------------------------
(* extractKeywords, src/OpportunityCard.jsx 46-83 *)

\* A text field of an opportunity is
\*   [kind |-> "absent" | "string" | "array", items |-> ...]
\* (one string kept as items[1], or an array of strings), as in
\* calculateCompatibilityScore above.

\* the stop words, lines 48-57
StopWords == {
    <<112, 104, 100>>,                                          \* phd
    <<114, 101, 115, 101, 97, 114, 99, 104>>,                   \* research
    <<112, 114, 111, 106, 101, 99, 116>>,                       \* project
    <<115, 116, 117, 100, 121>>,                                \* study
    <<117, 110, 105, 118, 101, 114, 115, 105, 116, 121>>,       \* university
    <<100, 101, 112, 97, 114, 116, 109, 101, 110, 116>>,        \* department
    <<116, 104, 101>>,                                          \* the
    <<97, 110, 100>>,                                           \* and
    <<111, 114>>,                                               \* or
    <<105, 110>>,                                               \* in
    <<97, 116>>,                                                \* at
    <<111, 102>>,                                               \* of
    <<116, 111>>,                                               \* to
    <<102, 111, 114>>,                                          \* for
    <<119, 105, 116, 104>>,                                     \* with
    <<98, 121>>,                                                \* by
    <<102, 117, 110, 100, 101, 100>>,                           \* funded
    <<115, 99, 104, 111, 108, 97, 114, 115, 104, 105, 112>>,    \* scholarship
    <<112, 111, 115, 105, 116, 105, 111, 110>>,                 \* position
    <<97, 118, 97, 105, 108, 97, 98, 108, 101>>,                \* available
    <<97, 112, 112, 108, 105, 99, 97, 116, 105, 111, 110, 115>>,\* applications
    <<97, 112, 112, 108, 121>>,                                 \* apply
    <<100, 101, 97, 100, 108, 105, 110, 101>>,                  \* deadline
    <<111, 112, 112, 111, 114, 116, 117, 110, 105, 116, 121>>,  \* opportunity
    <<112, 114, 111, 103, 114, 97, 109>>,                       \* program
    <<115, 116, 117, 100, 101, 110, 116>>,                      \* student
    <<115, 116, 117, 100, 101, 110, 116, 115>>,                 \* students
    <<119, 111, 114, 107>>,                                     \* work
    <<119, 105, 108, 108>>,                                     \* will
    <<98, 101>>,                                                \* be
    <<105, 115>>,                                               \* is
    <<97, 114, 101>>,                                           \* are
    <<116, 104, 105, 115>>,                                     \* this
    <<116, 104, 97, 116>>,                                      \* that
    <<119, 101>>,                                               \* we
    <<111, 117, 114>>,                                          \* our
    <<117, 115>>,                                               \* us
    <<121, 111, 117>>,                                          \* you
    <<121, 111, 117, 114>>,                                     \* your
    <<116, 104, 101, 121>>,                                     \* they
    <<116, 104, 101, 105, 114>>,                                \* their
    <<116, 104, 101, 109>>,                                     \* them
    <<105, 116>>,                                               \* it
    <<105, 116, 115>>,                                          \* its
    <<104, 97, 118, 101>>,                                      \* have
    <<104, 97, 115>>,                                           \* has
    <<104, 97, 100>>,                                           \* had
    <<100, 111>>,                                               \* do
    <<100, 111, 101, 115>>,                                     \* does
    <<100, 105, 100>>,                                          \* did
    <<99, 97, 110>>,                                            \* can
    <<99, 111, 117, 108, 100>>,                                 \* could
    <<115, 104, 111, 117, 108, 100>>,                           \* should
    <<119, 111, 117, 108, 100>>,                                \* would
    <<109, 97, 121>>,                                           \* may
    <<109, 105, 103, 104, 116>>,                                \* might
    <<109, 117, 115, 116>>,                                     \* must
    <<97>>,                                                     \* a
    <<97, 110>>,                                                \* an
    <<111, 110>>,                                               \* on
    <<102, 114, 111, 109>> }                                    \* from

\* \s of a regular expression
IsSpace(c) ==
    c \in {9, 10, 11, 12, 13, 32, 160, 5760, 8232, 8233, 8239, 8287, 12288, 65279}
    \/ (c >= 8192 /\ c <= 8202)
\* \w of a regular expression
IsWordChar(c) ==
    (c >= 48 /\ c <= 57) \/ (c >= 65 /\ c <= 90) \/ c = 95 \/ (c >= 97 /\ c <= 122)
IsDigit(c) == c >= 48 /\ c <= 57

\* Array.prototype.join
RECURSIVE JoinWith(_, _)
JoinWith(items, sep) ==
    IF Len(items) = 0 THEN <<>>
    ELSE IF Len(items) = 1 THEN items[1]
    ELSE items[1] \o sep \o JoinWith(Tail(items), sep)

\* the string join(' ') makes of one element: a string as it is, an array
\* through Array.prototype.toString, its elements joined by ","
FieldString(field) ==
    IF field.kind = "array" THEN JoinWith(field.items, <<44>>) ELSE field.items[1]

Str_undefined == <<117, 110, 100, 101, 102, 105, 110, 101, 100>>  \* "undefined"

\* lines 60-66: [title, description, department, subjects, requirements]
\*   .filter(Boolean).join(' ').toLowerCase()
FieldList(opportunity) ==
    <<opportunity.title, opportunity.description, opportunity.department,
      opportunity.subjects, opportunity.requirements>>
KeywordTextUndefined(opportunity) ==
    LET all == FieldList(opportunity)
    IN  ToLowerCase(JoinWith(
            [k \in 1..Len(all) |->
                IF all[k].kind = "absent" THEN Str_undefined ELSE FieldString(all[k])],
            <<32>>))
KeywordText(opportunity) ==
    LET kept == SelectSeq(FieldList(opportunity), Truthy)
    IN  ToLowerCase(JoinWith([k \in 1..Len(kept) |-> FieldString(kept[k])], <<32>>))

\* text.split(/\s+/): the maximal runs of non-space characters, with an empty
\* string in front when the text is empty or starts with a space and one at
\* the end when it ends with a space
WordStarts(text) ==
    {i \in 1..Len(text) : ~IsSpace(text[i]) /\ (i = 1 \/ IsSpace(text[i - 1]))}
WordEnd(text, i) ==
    CHOOSE j \in i..Len(text) :
        /\ \A k \in i..j : ~IsSpace(text[k])
        /\ (j = Len(text) \/ IsSpace(text[j + 1]))
SplitWhitespace(text) ==
    LET starts == WordStarts(text)
        nth(k) == CHOOSE i \in starts : Cardinality({j \in starts : j < i}) = k - 1
        runs == [k \in 1..Cardinality(starts) |-> SubSeq(text, nth(k), WordEnd(text, nth(k)))]
        front == IF Len(text) = 0 \/ IsSpace(text[1]) THEN << <<>> >> ELSE <<>>
        back == IF Len(text) > 0 /\ IsSpace(text[Len(text)]) THEN << <<>> >> ELSE <<>>
    IN  front \o runs \o back

\* word.replace(/[^\w]/g, '')
CleanWord(word) == SelectSeq(word, IsWordChar)

\* const wordCount = {}: the own properties in creation order, each
\* [key, num, n]: a number n (num) or a string that is no number (~num).
\* Object.prototype gives every object the properties below; of its property
\* names only these two are lower-case words, the only keys a lower-cased
\* token can meet.
Str_constructor == <<99, 111, 110, 115, 116, 114, 117, 99, 116, 111, 114>>  \* "constructor"
Str_proto == <<95, 95, 112, 114, 111, 116, 111, 95, 95>>                    \* "__proto__"
ObjectPrototypeKeys == {Str_constructor, Str_proto}

OwnIndex(wordCount, key) ==
    IF \E k \in 1..Len(wordCount) : wordCount[k].key = key
    THEN CHOOSE k \in 1..Len(wordCount) : wordCount[k].key = key
    ELSE 0

\* (wordCount[cleanWord] || 0) + 1: a count + 1; undefined gives 1; the
\* inherited function or object, or a string, gives a string (string + 1)
NextCount(wordCount, key) ==
    LET k == OwnIndex(wordCount, key)
    IN  IF k > 0
        THEN IF wordCount[k].num
             THEN [key |-> key, num |-> TRUE, n |-> wordCount[k].n + 1]
             ELSE [key |-> key, num |-> FALSE, n |-> 0]
        ELSE IF key \in ObjectPrototypeKeys
             THEN [key |-> key, num |-> FALSE, n |-> 0]
             ELSE [key |-> key, num |-> TRUE, n |-> 1]

\* wordCount[cleanWord] = ...; assigning a string to __proto__ changes nothing
SetProp(wordCount, entry) ==
    LET k == OwnIndex(wordCount, entry.key)
    IN  IF entry.key = Str_proto THEN wordCount
        ELSE IF k > 0 THEN [wordCount EXCEPT ![k] = entry]
        ELSE Append(wordCount, entry)

\* lines 73-76, one turn of the loop over the words
CountWordNoLengthCheck(wordCount, word) ==
    LET cleanWord == CleanWord(word)
    IN  IF cleanWord \in StopWords THEN wordCount
        ELSE SetProp(wordCount, NextCount(wordCount, cleanWord))
CountWord(wordCount, word) ==
    LET cleanWord == CleanWord(word)
    IN  IF Len(cleanWord) < 4 \/ cleanWord \in StopWords THEN wordCount
        ELSE SetProp(wordCount, NextCount(wordCount, cleanWord))

RECURSIVE CountLoop(_, _, _)
CountLoop(words, i, wordCount) ==
    IF i > Len(words) THEN wordCount
    ELSE LET next == CountWord(wordCount, words[i])
         IN  IF Len(next) >= 0 THEN CountLoop(words, i + 1, next) ELSE next

\* a key that is an array index: a canonical numeric string below 2^32 - 1
Str_maxIndex == <<52, 50, 57, 52, 57, 54, 55, 50, 57, 52>>  \* "4294967294"
\* s <= t for digit strings of one length
DigitsLeq(s, t) ==
    \/ s = t
    \/ \E k \in 1..Len(s) : s[k] < t[k] /\ \A j \in 1..(k - 1) : s[j] = t[j]
IsArrayIndex(key) ==
    /\ Len(key) > 0
    /\ \A k \in 1..Len(key) : IsDigit(key[k])
    /\ (Len(key) = 1 \/ key[1] # 48)
    /\ (Len(key) < 10 \/ (Len(key) = 10 /\ DigitsLeq(key, Str_maxIndex)))
IndexLess(s, t) ==
    Len(s) < Len(t) \/ (Len(s) = Len(t) /\ s # t /\ DigitsLeq(s, t))

\* Object.entries: the array-index keys in ascending numeric order, then the
\* other keys in the order they were created
ObjectEntries(wordCount) ==
    LET idx == {k \in 1..Len(wordCount) : IsArrayIndex(wordCount[k].key)}
        nthIdx(m) ==
            CHOOSE k \in idx :
                Cardinality({j \in idx : IndexLess(wordCount[j].key, wordCount[k].key)}) = m - 1
        IsName(e) == ~IsArrayIndex(e.key)
    IN  [m \in 1..Cardinality(idx) |-> wordCount[nthIdx(m)]] \o SelectSeq(wordCount, IsName)

\* the comparator (a, b) => b[1] - a[1]; NaN (a string operand) counts as 0
CompareCounts(a, b) == IF a.num /\ b.num THEN b.n - a.n ELSE 0

\* Array.prototype.sort, stable: each element in turn is put into the sorted
\* part, behind every element it does not compare less than
RECURSIVE InsertEntry(_, _, _)
InsertEntry(sorted, x, j) ==
    IF j >= 1 /\ CompareCounts(x, sorted[j]) < 0
    THEN InsertEntry(sorted, x, j - 1)
    ELSE SubSeq(sorted, 1, j) \o <<x>> \o SubSeq(sorted, j + 1, Len(sorted))
RECURSIVE SortEntriesFrom(_, _, _)
SortEntriesFrom(entries, i, sorted) ==
    IF i > Len(entries) THEN sorted
    ELSE LET next == InsertEntry(sorted, entries[i], Len(sorted))
         IN  IF Len(next) >= 0 THEN SortEntriesFrom(entries, i + 1, next) ELSE next
SortEntries(entries) == SortEntriesFrom(entries, 1, <<>>)

\* the comparator is consistent when it orders the entries: every count a
\* number, or all the numbers equal (a string compares as 0 with everything)
ConsistentComparator(entries) ==
    \/ \A k \in 1..Len(entries) : entries[k].num
    \/ \A j, k \in 1..Len(entries) : (entries[j].num /\ entries[k].num) => entries[j].n = entries[k].n

\* lines 79-82: Object.entries(wordCount).sort(...).slice(0, 3).map(([word]) => word)
\* the first three of the stable order under a consistent comparator, the
\* first three of any order of the entries otherwise (the order sort leaves
\* is then implementation-defined)
TopThree(wordCount) ==
    LET entries == ObjectEntries(wordCount)
        m == Min(3, Len(entries))
        sorted == SortEntries(entries)
    IN  IF ConsistentComparator(entries)
        THEN {[k \in 1..m |-> sorted[k].key]}
        ELSE {[k \in 1..m |-> entries[p[k]].key] :
                p \in {q \in [1..m -> 1..Len(entries)] :
                         \A i, j \in 1..m : q[i] = q[j] => i = j}}

KeywordsValue(keywords) == [kind |-> "value", val |-> keywords]
KeywordsPending == [kind |-> "pending", val |-> <<>>]

\* the values a call may return
ExtractKeywords(opportunity) ==
    LET words == SplitWhitespace(KeywordText(opportunity))
    IN  {KeywordsValue(keywords) : keywords \in TopThree(CountLoop(words, 1, <<>>))}

-----------------------------------------------------------------------------
(* Inputs of the pure functions *)

HashAlphabet == {45, 48, 97, 122}                     \* - 0 a z
SpecialTexts == {
    <<71, 121, 100, 90, 71, 95>>,                      \* "GydZG_", accumulator -2^31
    <<112, 104, 100, 45, 48, 48, 49>>,                 \* "phd-001", accumulator < 0
    <<111, 112, 112, 45, 48, 52, 50, 45, 117, 115, 101, 114, 49, 50, 51>>,
                                                       \* "opp-042-user123"
    <<111, 112, 112, 45, 52, 50, 45, 112, 101, 99, 108, 122, 115, 104>> }
                                                       \* "opp-42-peclzsh", -2^31
HashInputs == SeqsUpTo(HashAlphabet, MaxStrLen) \cup SpecialTexts

Str_opp42 == <<111, 112, 112, 45, 52, 50>>             \* "opp-42"
Str_opp042 == <<111, 112, 112, 45, 48, 52, 50>>        \* "opp-042"
Str_phd001 == <<112, 104, 100, 45, 48, 48, 49>>        \* "phd-001"
Str_peclzsh == <<112, 101, 99, 108, 122, 115, 104>>    \* "peclzsh"
Str_u1 == <<117, 49>>                                  \* "u1"
Str_ML == <<77, 76>>                                   \* "ML"
Str_mlops == <<109, 108, 111, 112, 115>>               \* "mlops"
Str_ai == <<97, 105>>                                  \* "ai"
Str_ml_ai == <<109, 108, 44, 32, 97, 105>>             \* "ml, ai"

ScoreOppIds == {Str_opp42, Str_opp042, Str_phd001}
ScoreUserIds == {None, Some(<<>>), Some(Str_peclzsh), Some(Str_u1)}
ScoreWords == {Str_ML, Str_mlops, Str_ai}

ScoreSubjects ==
    {[kind |-> "absent", items |-> <<>>], [kind |-> "string", items |-> <<Str_ml_ai>>],
     [kind |-> "string", items |-> << <<>> >>]}
    \cup {[kind |-> "array", items |-> l] : l \in SeqsUpTo(ScoreWords, MaxSubjects)}
ScoreInterests ==
    {[kind |-> "absent", items |-> <<>>]}
    \cup {[kind |-> "array", items |-> l] : l \in SeqsUpTo(ScoreWords, MaxInterests)}

ScoreOpportunities ==
    {None} \cup {Some([id |-> i, subjects |-> s]) : i \in ScoreOppIds, s \in ScoreSubjects}
ScoreProfiles ==
    {None} \cup {Some([id |-> i, interests |-> s]) : i \in ScoreUserIds, s \in ScoreInterests}

-----------------------------------------------------------------------------
(* The hash functions called on every input: SpecHash *)

HashPending == [kind |-> "pending", num |-> NumZero]

HashInit ==
    /\ fn \in {"hashCode", "generateScore"}
    /\ arg \in HashInputs
    /\ ret = HashPending
    /\ PageIdle

CallHashCode ==
    /\ fn = "hashCode"
    /\ ret.kind = "pending"
    /\ ret' = [kind |-> "value", num |-> HashCode(arg)]
    /\ UNCHANGED <<fn, arg>>
    /\ UNCHANGED pageVars

CallGenerateScore ==
    /\ fn = "generateScore"
    /\ ret.kind = "pending"
    /\ ret' = [kind |-> "value", num |-> NumOf(GenerateScore(arg))]
    /\ UNCHANGED <<fn, arg>>
    /\ UNCHANGED pageVars

HashNext == CallHashCode \/ CallGenerateScore

SpecHash == HashInit /\ [][HashNext]_vars

-----------------------------------------------------------------------------
(* calculateCompatibilityScore called on every input: SpecScore *)

ScoreInit ==
    /\ fn = "calculateCompatibilityScore"
    /\ arg \in [opportunity : ScoreOpportunities, userProfile : ScoreProfiles]
    /\ ret = ScorePending
    /\ PageIdle

CallCalculateCompatibilityScore ==
    /\ fn = "calculateCompatibilityScore"
    /\ ret.kind = "pending"
    /\ ret' = CalculateCompatibilityScore(arg.opportunity, arg.userProfile)
    /\ UNCHANGED <<fn, arg>>
    /\ UNCHANGED pageVars

ScoreNext == CallCalculateCompatibilityScore

SpecScore == ScoreInit /\ [][ScoreNext]_vars

-----------------------------------------------------------------------------
(* extractKeywords called on every input: SpecKw *)

\* the words a title is made of
Str_Deep == <<68, 101, 101, 112>>                                \* "Deep"
Str_the == <<116, 104, 101>>                                     \* "the"
Str_2025 == <<50, 48, 50, 53>>                                   \* "2025"
Str_ResearchColon == <<82, 101, 115, 101, 97, 114, 99, 104, 58>> \* "Research:"
Str_vision == <<118, 105, 115, 105, 111, 110>>                   \* "vision"
Str_VisionLearning ==                                            \* "Vision & LEARNING vision"
    <<86, 105, 115, 105, 111, 110, 32, 38, 32, 76, 69, 65, 82, 78, 73, 78, 71, 32,
      118, 105, 115, 105, 111, 110>>
Str_DeepLearning ==                                              \* "Deep learning"
    <<68, 101, 101, 112, 32, 108, 101, 97, 114, 110, 105, 110, 103>>
Str_2025intake == <<50, 48, 50, 53, 32, 105, 110, 116, 97, 107, 101>>  \* "2025 intake"
Str_deepVision == <<100, 101, 101, 112, 44, 32, 118, 105, 115, 105, 111, 110>>  \* "deep, vision"

KwWords == {Str_Deep, Str_the, Str_2025, Str_ResearchColon, Str_constructor, Str_proto}

AbsentField == [kind |-> "absent", items |-> <<>>]
StringField(str) == [kind |-> "string", items |-> <<str>>]
ArrayField(items) == [kind |-> "array", items |-> items]

KwTitles ==
    {AbsentField} \cup {StringField(JoinWith(w, <<32>>)) : w \in SeqsUpTo(KwWords, MaxTitleWords)}
KwDescriptions == {AbsentField, StringField(Str_VisionLearning)}
KwDepartments == {AbsentField, StringField(<<>>)}
KwSubjects == {AbsentField, StringField(Str_deepVision), ArrayField(<<Str_Deep, Str_vision>>)}
KwRequirements == {AbsentField, ArrayField(<<Str_DeepLearning, Str_2025intake>>)}

KwOpportunities ==
    [title : KwTitles, description : KwDescriptions, department : KwDepartments,
     subjects : KwSubjects, requirements : KwRequirements]

KwInit ==
    /\ fn = "extractKeywords"
    /\ arg \in KwOpportunities
    /\ ret = KeywordsPending
    /\ PageIdle

CallExtractKeywords ==
    /\ fn = "extractKeywords"
    /\ ret.kind = "pending"
    /\ ret' \in ExtractKeywords(arg)
    /\ UNCHANGED <<fn, arg>>
    /\ UNCHANGED pageVars

KwNext == CallExtractKeywords

SpecKw == KwInit /\ [][KwNext]_vars

-----------------------------------------------------------------------------
(* getSortedAndFilteredOpportunities, src/OpportunityCard.jsx 714-758 *)

\* String.prototype.trim
RECURSIVE TrimStart(_)
TrimStart(s) == IF Len(s) > 0 /\ IsSpace(s[1]) THEN TrimStart(Tail(s)) ELSE s
RECURSIVE TrimEnd(_)
TrimEnd(s) ==
    IF Len(s) > 0 /\ IsSpace(s[Len(s)]) THEN TrimEnd(SubSeq(s, 1, Len(s) - 1)) ELSE s
Trim(s) == TrimEnd(TrimStart(s))

\* truthiness of a field that is a string, null or undefined
TruthyString(o) == IsSome(o) /\ Len(Get(o)) > 0

Str_DeadlineNotSpecified ==
    <<68, 101, 97, 100, 108, 105, 110, 101, 32, 78, 111, 116, 32,
      83, 112, 101, 99, 105, 102, 105, 101, 100>>  \* "Deadline Not Specified"

\* lines 720-725, the predicate of the search filter
MatchesQueryTitleOnly(opp, query) == Includes(ToLowerCase(opp.title), query)
MatchesQuery(opp, query) ==
    \/ Includes(ToLowerCase(opp.title), query)
    \/ Includes(ToLowerCase(opp.university), query)
    \/ Includes(ToLowerCase(opp.department), query)
    \/ Includes(ToLowerCase(opp.description), query)

\* lines 715-740: the copy of opportunities after the search filter and the
\* four flag filters
FilterStageWithoutSupervisor(opps, queryText, flags) ==
    LET query == ToLowerCase(queryText)
        Matches(opp) == MatchesQuery(opp, query)
        IsFunded(opp) == opp.fullyFunded
        IsInternational(opp) == opp.international
        HasDeadline(opp) ==
            TruthyString(opp.deadline) /\ Get(opp.deadline) # Str_DeadlineNotSpecified
        f1 == IF Len(Trim(queryText)) > 0 THEN SelectSeq(opps, Matches)
              ELSE opps
        f2 == IF flags.fullyFunded THEN SelectSeq(f1, IsFunded) ELSE f1
        f3 == IF flags.international THEN SelectSeq(f2, IsInternational) ELSE f2
    IN  IF flags.hasDeadline THEN SelectSeq(f3, HasDeadline) ELSE f3
FilterStage(opps, queryText, flags) ==
    LET query == ToLowerCase(queryText)
        Matches(opp) == MatchesQuery(opp, query)
        IsFunded(opp) == opp.fullyFunded
        IsInternational(opp) == opp.international
        HasDeadline(opp) ==
            TruthyString(opp.deadline) /\ Get(opp.deadline) # Str_DeadlineNotSpecified
        HasSupervisor(opp) == TruthyString(opp.supervisor)
        f1 == IF Len(Trim(queryText)) > 0 THEN SelectSeq(opps, Matches)
              ELSE opps
        f2 == IF flags.fullyFunded THEN SelectSeq(f1, IsFunded) ELSE f1
        f3 == IF flags.international THEN SelectSeq(f2, IsInternational) ELSE f2
        f4 == IF flags.hasDeadline THEN SelectSeq(f3, HasDeadline) ELSE f3
    IN  IF flags.hasSupervisor THEN SelectSeq(f4, HasSupervisor) ELSE f4

\* new Date(string) for a date-only ISO string (YYYY-MM-DD, read as UTC); the
\* time value is kept in days, 1/86400000 of the code's milliseconds: the
\* comparator's result is used for its sign only. Any other string here has
\* no digits and gives an Invalid Date (time value NaN).
DigitsValue(s, from, to) ==
    LET RECURSIVE val(_, _)
        val(i, acc) == IF i > to THEN acc ELSE val(i + 1, acc * 10 + (s[i] - 48))
    IN  val(from, 0)
IsLeapYear(y) == (y % 4 = 0 /\ y % 100 # 0) \/ y % 400 = 0
DaysInMonth(y, m) ==
    IF m = 2 THEN (IF IsLeapYear(y) THEN 29 ELSE 28)
    ELSE IF m \in {4, 6, 9, 11} THEN 30 ELSE 31
IsIsoDate(s) ==
    /\ Len(s) = 10
    /\ s[5] = 45 /\ s[8] = 45
    /\ \A i \in {1, 2, 3, 4, 6, 7, 9, 10} : IsDigit(s[i])
    /\ DigitsValue(s, 6, 7) \in 1..12
    /\ DigitsValue(s, 9, 10) \in 1..DaysInMonth(DigitsValue(s, 1, 4), DigitsValue(s, 6, 7))
\* days from 1970-01-01 to the day y-m-d
DaysFromEpoch(y, m, d) ==
    LET yy == IF m <= 2 THEN y - 1 ELSE y
        era == yy \div 400
        yoe == yy - era * 400
        mp == IF m > 2 THEN m - 3 ELSE m + 9
        doy == (153 * mp + 2) \div 5 + d - 1
        doe == yoe * 365 + yoe \div 4 - yoe \div 100 + doy
    IN  era * 146097 + doe - 719468
TimeValue(t) == [nan |-> FALSE, t |-> t]
NaN == [nan |-> TRUE, t |-> 0]
NewDate(s) ==
    IF IsIsoDate(s)
    THEN TimeValue(DaysFromEpoch(DigitsValue(s, 1, 4), DigitsValue(s, 6, 7), DigitsValue(s, 9, 10)))
    ELSE NaN

\* new Date(a.postedDate || a.deadline || 0)
SortDate(opp) ==
    IF TruthyString(opp.postedDate) THEN NewDate(Get(opp.postedDate))
    ELSE IF TruthyString(opp.deadline) THEN NewDate(Get(opp.deadline))
    ELSE TimeValue(0)

\* sortedScores.get(a.id) || 32
CachedScore(scores, id) ==
    IF id \in DOMAIN scores /\ scores[id] # 0 THEN scores[id] ELSE 32

\* the number the comparator takes of one opportunity
SortKey(opp, order, scores) ==
    IF order = "compatibility" THEN TimeValue(CachedScore(scores, opp.id))
    ELSE SortDate(opp)

\* lines 743-755, the comparator: scoreB - scoreA or dateB - dateA; NaN (an
\* Invalid Date operand) counts as 0
CompareOpportunitiesAscending(a, b, order, scores) ==
    LET ka == SortKey(a, order, scores)
        kb == SortKey(b, order, scores)
    IN  IF ka.nan \/ kb.nan THEN 0 ELSE ka.t - kb.t
CompareOpportunities(a, b, order, scores) ==
    LET ka == SortKey(a, order, scores)
        kb == SortKey(b, order, scores)
    IN  IF ka.nan \/ kb.nan THEN 0 ELSE kb.t - ka.t

\* Array.prototype.sort, stable, as for the keyword entries
RECURSIVE InsertOpportunity(_, _, _, _, _)
InsertOpportunity(sorted, x, j, order, scores) ==
    IF j >= 1 /\ CompareOpportunities(x, sorted[j], order, scores) < 0
    THEN InsertOpportunity(sorted, x, j - 1, order, scores)
    ELSE SubSeq(sorted, 1, j) \o <<x>> \o SubSeq(sorted, j + 1, Len(sorted))
RECURSIVE SortOpportunitiesFrom(_, _, _, _, _)
SortOpportunitiesFrom(items, i, sorted, order, scores) ==
    IF i > Len(items) THEN sorted
    ELSE LET next == InsertOpportunity(sorted, items[i], Len(sorted), order, scores)
         IN  IF Len(next) >= 0
             THEN SortOpportunitiesFrom(items, i + 1, next, order, scores)
             ELSE next

\* the comparator orders the items when no key is NaN or all the numbers are
\* equal (NaN compares as 0 with every key)
ConsistentOrder(items, order, scores) ==
    LET key(k) == SortKey(items[k], order, scores)
    IN  \/ \A k \in 1..Len(items) : ~key(k).nan
        \/ \A j, k \in 1..Len(items) : (~key(j).nan /\ ~key(k).nan) => key(j).t = key(k).t

\* lines 743-755: the orders filtered.sort may leave: the stable order under
\* a consistent comparator, any order otherwise (implementation-defined)
SortStage(filtered, order, scores) ==
    IF ConsistentOrder(filtered, order, scores)
    THEN {SortOpportunitiesFrom(filtered, 1, <<>>, order, scores)}
    ELSE {[k \in 1..Len(filtered) |-> filtered[p[k]]] :
            p \in {q \in [1..Len(filtered) -> 1..Len(filtered)] :
                     \A i, j \in 1..Len(filtered) : q[i] = q[j] => i = j}}

\* line 715, let filtered = [...opportunities]: whether the local array is
\* the component's array itself when the sort starts. The spread makes a new
\* array, so it never is; without the spread it would be whenever no filter
\* has replaced it.
LocalArrayIsInputUnlessFiltered(queryText, flags) ==
    /\ Len(Trim(queryText)) = 0
    /\ ~flags.fullyFunded /\ ~flags.international
    /\ ~flags.hasDeadline /\ ~flags.hasSupervisor
LocalArrayIsInput(queryText, flags) == FALSE

\* a finished call: filtered is the local array when the filters are done
\* (line 741), val the array returned, opportunities the component's array
\* after the call
SortedAndFiltered(filtered, sorted, opps) ==
    [kind |-> "value", filtered |-> filtered, val |-> sorted, opportunities |-> opps]
SortedAndFilteredPending ==
    [kind |-> "pending", filtered |-> <<>>, val |-> <<>>, opportunities |-> <<>>]

\* the values a call may return; filtered.sort sorts the local array in place
GetSortedAndFilteredOpportunities(opps, queryText, flags, order, scores) ==
    LET filtered == FilterStage(opps, queryText, flags)
    IN  {SortedAndFiltered(filtered, sorted,
                           IF LocalArrayIsInput(queryText, flags) THEN sorted ELSE opps) :
            sorted \in SortStage(filtered, order, scores)}

\* the score with the modulus 92
RandomScoreModuloMax(id) == 32 + NumMod(HashCode(id), 92)
\* lines 677-678: 32 + (hashCode(opp.id) % (92 - 32))
RandomScore(id) == 32 + NumMod(HashCode(id), 92 - 32)

-----------------------------------------------------------------------------
(* Calls of getSortedAndFilteredOpportunities *)

Str_phd00 == <<112, 104, 100, 45, 48, 48>>                         \* "phd-00"
Str_QuantumComputing ==
    <<81, 117, 97, 110, 116, 117, 109, 32, 67, 111, 109, 112, 117, 116, 105, 110, 103>>  \* "Quantum Computing"
Str_Robotics == <<82, 111, 98, 111, 116, 105, 99, 115>>            \* "Robotics"
Str_MIT == <<77, 73, 84>>                                          \* "MIT"
Str_Physics == <<80, 104, 121, 115, 105, 99, 115>>                 \* "Physics"
Str_QuantumPhysics ==
    <<81, 117, 97, 110, 116, 117, 109, 32, 80, 104, 121, 115, 105, 99, 115>>  \* "Quantum Physics"
Str_DrSmith == <<68, 114, 46, 32, 83, 109, 105, 116, 104>>         \* "Dr. Smith"
Str_Jan15 == <<50, 48, 50, 53, 45, 48, 49, 45, 49, 53>>            \* "2025-01-15"
Str_Jun01 == <<50, 48, 50, 53, 45, 48, 54, 45, 48, 49>>            \* "2025-06-01"
Str_Mar01 == <<50, 48, 50, 53, 45, 48, 51, 45, 48, 49>>            \* "2025-03-01"
Str_Dec31 == <<50, 48, 50, 52, 45, 49, 50, 45, 51, 49>>            \* "2024-12-31"
Str_Feb10 == <<50, 48, 50, 53, 45, 48, 50, 45, 49, 48>>            \* "2025-02-10"
Str_soon == <<115, 111, 111, 110>>                                 \* "soon"
Str_QUANTUM == <<81, 85, 65, 78, 84, 85, 77>>                      \* "QUANTUM"
Str_xyz == <<120, 121, 122>>                                       \* "xyz"
Str_spaceQuantum == <<32, 113, 117, 97, 110, 116, 117, 109>>       \* " quantum"

\* the k-th opportunity of the catalogue: the three attributes the flags read
\* take all eight combinations, the dates every form a date field takes
PostedDates ==
    <<Some(Str_Jan15), Some(Str_Jan15), None, None,
      Some(Str_soon), None, Some(Str_Dec31), Some(Str_Feb10)>>
Deadlines ==
    <<Some(Str_Jun01), None, Some(Str_Mar01), None,
      Some(Str_Jun01), Some(Str_DeadlineNotSpecified), Some(<<>>), Some(Str_Mar01)>>
CatalogueOpportunity(k) ==
    [id |-> Str_phd00 \o <<48 + k>>,
     title |-> IF k \in {1, 2, 5} THEN Str_QuantumComputing ELSE Str_Robotics,
     university |-> Str_MIT,
     department |-> IF k \in {3, 5} THEN Str_QuantumPhysics ELSE Str_Physics,
     description |-> <<>>,
     fullyFunded |-> (k - 1) % 2 = 1,
     international |-> ((k - 1) \div 2) % 2 = 1,
     supervisor |-> IF ((k - 1) \div 4) % 2 = 1 THEN Some(Str_DrSmith) ELSE None,
     deadline |-> Deadlines[k],
     postedDate |-> PostedDates[k]]
Catalogue == {CatalogueOpportunity(k) : k \in 1..Len(PostedDates)}

\* the orders of three opportunities, one with a malformed postedDate and
\* two with valid, different ones
MalformedDateLists ==
    {[k \in 1..3 |-> CatalogueOpportunity(p[k])] :
        p \in {q \in [1..3 -> {1, 5, 8}] : \A i, j \in 1..3 : q[i] = q[j] => i = j}}
\* two opportunities with one postedDate, between them one with a malformed
\* and one with a later postedDate
EqualDatesList ==
    <<CatalogueOpportunity(1), CatalogueOpportunity(5), CatalogueOpportunity(8), CatalogueOpportunity(2)>>
FilterOpportunities == SeqsUpTo(Catalogue, MaxOpps) \cup MalformedDateLists \cup {EqualDatesList}
FilterQueries == {<<>>, <<32>>, Str_QUANTUM, Str_xyz, Str_spaceQuantum}
FilterConfigs ==
    [fullyFunded : BOOLEAN, international : BOOLEAN, hasDeadline : BOOLEAN, hasSupervisor : BOOLEAN]
\* the score cache: empty, or the scores of the first two opportunities
ScoreCaches ==
    {<<>>,
     [id \in {CatalogueOpportunity(1).id, CatalogueOpportunity(2).id} |-> RandomScore(id)]}

FilterInit ==
    /\ fn = "getSortedAndFilteredOpportunities"
    /\ arg \in [opportunities : FilterOpportunities, searchQuery : FilterQueries,
                filters : FilterConfigs, sortBy : {"date", "compatibility"},
                sortedScores : ScoreCaches]
    /\ ret = SortedAndFilteredPending
    /\ PageIdle

CallGetSortedAndFilteredOpportunities ==
    /\ fn = "getSortedAndFilteredOpportunities"
    /\ ret.kind = "pending"
    /\ ret' \in GetSortedAndFilteredOpportunities(arg.opportunities, arg.searchQuery,
                    arg.filters, arg.sortBy, arg.sortedScores)
    /\ UNCHANGED <<fn, arg>>
    /\ UNCHANGED pageVars

FilterNext == CallGetSortedAndFilteredOpportunities

SpecFilter == FilterInit /\ [][FilterNext]_vars

-----------------------------------------------------------------------------
(* The Opportunities page, src/OpportunityCard.jsx 499-800 *)

\* lines 569-580
universities ==
    <<
        \* 'Stanford University'
        <<83, 116, 97, 110, 102, 111, 114, 100, 32, 85, 110, 105, 118, 101, 114, 115, 105, 116,
          121>>,
        \* 'MIT'
        <<77, 73, 84>>,
        \* 'University of Oxford'
        <<85, 110, 105, 118, 101, 114, 115, 105, 116, 121, 32, 111, 102, 32, 79, 120, 102, 111,
          114, 100>>,
        \* 'ETH Zurich'
        <<69, 84, 72, 32, 90, 117, 114, 105, 99, 104>>,
        \* 'University of Cambridge'
        <<85, 110, 105, 118, 101, 114, 115, 105, 116, 121, 32, 111, 102, 32, 67, 97, 109, 98,
          114, 105, 100, 103, 101>>,
        \* 'Harvard University'
        <<72, 97, 114, 118, 97, 114, 100, 32, 85, 110, 105, 118, 101, 114, 115, 105, 116, 121>>,
        \* 'California Institute of Technology'
        <<67, 97, 108, 105, 102, 111, 114, 110, 105, 97, 32, 73, 110, 115, 116, 105, 116, 117,
          116, 101, 32, 111, 102, 32, 84, 101, 99, 104, 110, 111, 108, 111, 103, 121>>,
        \* 'University College London'
        <<85, 110, 105, 118, 101, 114, 115, 105, 116, 121, 32, 67, 111, 108, 108, 101, 103,
          101, 32, 76, 111, 110, 100, 111, 110>>,
        \* 'Imperial College London'
        <<73, 109, 112, 101, 114, 105, 97, 108, 32, 67, 111, 108, 108, 101, 103, 101, 32, 76,
          111, 110, 100, 111, 110>>,
        \* 'University of Toronto'
        <<85, 110, 105, 118, 101, 114, 115, 105, 116, 121, 32, 111, 102, 32, 84, 111, 114, 111,
          110, 116, 111>>
    >>
\* lines 582-593
departments ==
    <<
        \* 'Computer Science'
        <<67, 111, 109, 112, 117, 116, 101, 114, 32, 83, 99, 105, 101, 110, 99, 101>>,
        \* 'Electrical Engineering'
        <<69, 108, 101, 99, 116, 114, 105, 99, 97, 108, 32, 69, 110, 103, 105, 110, 101, 101,
          114, 105, 110, 103>>,
        \* 'Mechanical Engineering'
        <<77, 101, 99, 104, 97, 110, 105, 99, 97, 108, 32, 69, 110, 103, 105, 110, 101, 101,
          114, 105, 110, 103>>,
        \* 'Physics'
        <<80, 104, 121, 115, 105, 99, 115>>,
        \* 'Mathematics'
        <<77, 97, 116, 104, 101, 109, 97, 116, 105, 99, 115>>,
        \* 'Biology'
        <<66, 105, 111, 108, 111, 103, 121>>,
        \* 'Chemistry'
        <<67, 104, 101, 109, 105, 115, 116, 114, 121>>,
        \* 'Environmental Science'
        <<69, 110, 118, 105, 114, 111, 110, 109, 101, 110, 116, 97, 108, 32, 83, 99, 105, 101,
          110, 99, 101>>,
        \* 'Data Science'
        <<68, 97, 116, 97, 32, 83, 99, 105, 101, 110, 99, 101>>,
        \* 'Biomedical Engineering'
        <<66, 105, 111, 109, 101, 100, 105, 99, 97, 108, 32, 69, 110, 103, 105, 110, 101, 101,
          114, 105, 110, 103>>
    >>
\* lines 595-606
titles ==
    <<
        \* 'PhD in Machine Learning and Computer Vision'
        <<80, 104, 68, 32, 105, 110, 32, 77, 97, 99, 104, 105, 110, 101, 32, 76, 101, 97, 114,
          110, 105, 110, 103, 32, 97, 110, 100, 32, 67, 111, 109, 112, 117, 116, 101, 114, 32,
          86, 105, 115, 105, 111, 110>>,
        \* 'PhD Scholarship in Artificial Intelligence'
        <<80, 104, 68, 32, 83, 99, 104, 111, 108, 97, 114, 115, 104, 105, 112, 32, 105, 110,
          32, 65, 114, 116, 105, 102, 105, 99, 105, 97, 108, 32, 73, 110, 116, 101, 108, 108,
          105, 103, 101, 110, 99, 101>>,
        \* 'Doctoral Position in Quantum Computing'
        <<68, 111, 99, 116, 111, 114, 97, 108, 32, 80, 111, 115, 105, 116, 105, 111, 110, 32,
          105, 110, 32, 81, 117, 97, 110, 116, 117, 109, 32, 67, 111, 109, 112, 117, 116, 105,
          110, 103>>,
        \* 'PhD Studentship in Robotics'
        <<80, 104, 68, 32, 83, 116, 117, 100, 101, 110, 116, 115, 104, 105, 112, 32, 105, 110,
          32, 82, 111, 98, 111, 116, 105, 99, 115>>,
        \* 'PhD Position in Natural Language Processing'
        <<80, 104, 68, 32, 80, 111, 115, 105, 116, 105, 111, 110, 32, 105, 110, 32, 78, 97,
          116, 117, 114, 97, 108, 32, 76, 97, 110, 103, 117, 97, 103, 101, 32, 80, 114, 111,
          99, 101, 115, 115, 105, 110, 103>>,
        \* 'PhD Opportunity in Bioinformatics'
        <<80, 104, 68, 32, 79, 112, 112, 111, 114, 116, 117, 110, 105, 116, 121, 32, 105, 110,
          32, 66, 105, 111, 105, 110, 102, 111, 114, 109, 97, 116, 105, 99, 115>>,
        \* 'Doctoral Research in Sustainable Energy'
        <<68, 111, 99, 116, 111, 114, 97, 108, 32, 82, 101, 115, 101, 97, 114, 99, 104, 32,
          105, 110, 32, 83, 117, 115, 116, 97, 105, 110, 97, 98, 108, 101, 32, 69, 110, 101,
          114, 103, 121>>,
        \* 'PhD Fellowship in Cybersecurity'
        <<80, 104, 68, 32, 70, 101, 108, 108, 111, 119, 115, 104, 105, 112, 32, 105, 110, 32,
          67, 121, 98, 101, 114, 115, 101, 99, 117, 114, 105, 116, 121>>,
        \* 'PhD in Human-Computer Interaction'
        <<80, 104, 68, 32, 105, 110, 32, 72, 117, 109, 97, 110, 45, 67, 111, 109, 112, 117,
          116, 101, 114, 32, 73, 110, 116, 101, 114, 97, 99, 116, 105, 111, 110>>,
        \* 'PhD Position in Computational Biology'
        <<80, 104, 68, 32, 80, 111, 115, 105, 116, 105, 111, 110, 32, 105, 110, 32, 67, 111,
          109, 112, 117, 116, 97, 116, 105, 111, 110, 97, 108, 32, 66, 105, 111, 108, 111, 103,
          121>>
    >>
\* line 652, the description template around ${title.split(' in ')[1]}
\* 'Join our research group focused on developing novel approaches in '
DescriptionHead ==
    <<74, 111, 105, 110, 32, 111, 117, 114, 32, 114, 101, 115, 101, 97, 114, 99, 104, 32, 103,
      114, 111, 117, 112, 32, 102, 111, 99, 117, 115, 101, 100, 32, 111, 110, 32, 100, 101,
      118, 101, 108, 111, 112, 105, 110, 103, 32, 110, 111, 118, 101, 108, 32, 97, 112, 112,
      114, 111, 97, 99, 104, 101, 115, 32, 105, 110, 32>>
\* '. This position offers the opportunity to work with state-of-the-art
\* equipment and collaborate with industry partners.'
DescriptionTail ==
    <<46, 32, 84, 104, 105, 115, 32, 112, 111, 115, 105, 116, 105, 111, 110, 32, 111, 102, 102,
      101, 114, 115, 32, 116, 104, 101, 32, 111, 112, 112, 111, 114, 116, 117, 110, 105, 116,
      121, 32, 116, 111, 32, 119, 111, 114, 107, 32, 119, 105, 116, 104, 32, 115, 116, 97, 116,
      101, 45, 111, 102, 45, 116, 104, 101, 45, 97, 114, 116, 32, 101, 113, 117, 105, 112, 109,
      101, 110, 116, 32, 97, 110, 100, 32, 99, 111, 108, 108, 97, 98, 111, 114, 97, 116, 101,
      32, 119, 105, 116, 104, 32, 105, 110, 100, 117, 115, 116, 114, 121, 32, 112, 97, 114,
      116, 110, 101, 114, 115, 46>>

Str_in == <<32, 105, 110, 32>>        \* ' in '
Str_phdDash == <<112, 104, 100, 45>>  \* 'phd-'
Str_0 == <<48>>                       \* '0'

\* the first index at which t starts in s, 0 if nowhere
IndexOf(s, t) ==
    IF Includes(s, t)
    THEN 1 + (CHOOSE k \in 0..(Len(s) - Len(t)) :
                /\ \A i \in 1..Len(t) : s[k + i] = t[i]
                /\ \A m \in 0..(k - 1) : \E i \in 1..Len(t) : s[m + i] # t[i])
    ELSE 0
\* title.split(' in ')[1]: what stands between the first ' in ' and the next
\* one (or the end); every title of the table has one
SplitInSecond(title) ==
    LET rest == SubSeq(title, IndexOf(title, Str_in) + Len(Str_in), Len(title))
    IN  IF Includes(rest, Str_in) THEN SubSeq(rest, 1, IndexOf(rest, Str_in) - 1) ELSE rest

\* Number.prototype.toString of a natural number
RECURSIVE NumberToString(_)
NumberToString(n) ==
    IF n < 10 THEN <<48 + n>> ELSE NumberToString(n \div 10) \o <<48 + (n % 10)>>
\* String.prototype.padStart
RECURSIVE PadStart(_, _, _)
PadStart(s, targetLength, padString) ==
    IF Len(s) >= targetLength THEN s ELSE PadStart(padString \o s, targetLength, padString)

\* line 622: Array.from({ length: 10 }, ...)
GeneratedCount == 10

\* lines 622-663, one generated opportunity (i counts from 0). Of its fields
\* the page's handlers read id and the four searched texts; the fields drawn
\* with Math.random (requirements, deadline, stipend, location, supervisor,
\* postedDate, fullyFunded, international) are read by none of them.
GeneratedOpportunity(i) ==
    LET title == titles[(i % Len(titles)) + 1]
    IN  [id |-> Str_phdDash \o PadStart(NumberToString(i + 1), 3, Str_0),
         title |-> title,
         university |-> universities[(i % Len(universities)) + 1],
         department |-> departments[(i % Len(departments)) + 1],
         description |-> DescriptionHead \o SplitInSecond(title) \o DescriptionTail]
GenerateOpportunities == [k \in 1..GeneratedCount |-> GeneratedOpportunity(k - 1)]

\* JSON.parse(localStorage.getItem('userProfile') || '{}').sop is truthy
ProfileHasSop(profile) == IsSome(profile) /\ TruthyString(Get(profile).sop)

\* lines 666-686, the effect on [opportunities]: the Map setSortedScores
\* receives, or nothing when the effect returns early
NewScores(opps, profile) ==
    IF Len(opps) = 0 THEN None
    ELSE IF ~ProfileHasSop(profile) THEN None
    ELSE Some([id \in {opps[k].id : k \in 1..Len(opps)} |-> RandomScore(id)])

\* a request in flight: fetchOpportunities, or handleSearch with the query
\* its closure holds
FetchRequest == [kind |-> "fetch", query |-> <<>>]
SearchRequest(query) == [kind |-> "search", query |-> query]

\* lines 778-784: the generated opportunities the query matches
SearchResults(query) ==
    LET lower == ToLowerCase(query)
        Matches(opp) == MatchesQuery(opp, lower)
    IN  SelectSeq(GenerateOpportunities, Matches)

\* what the empty-state panel (lines 1025-1039) reads: the list on screen
\* under the filters a new page has
FilteredOpportunities == FilterStage(opportunities, searchQuery, filters)

\* line 1056: the score a card shows, also the key of the compatibility sort
CompatibilityScore(id) == CachedScore(sortedScores, id)

-----------------------------------------------------------------------------
(* The page's state machine: Spec *)

Str_Quantum == <<81, 117, 97, 110, 116, 117, 109>>  \* "Quantum"
Str_sopText == <<65, 73>>                            \* "AI"
PageQueries == {<<>>, <<32>>, Str_Quantum, Str_xyz}
\* no item, a profile without statement of purpose, a profile with one
StoredProfiles == {None, Some([sop |-> None]), Some([sop |-> Some(Str_sopText)])}

\* no call has set savedOpportunities
NoSavedCall == [handler |-> "none", id |-> <<>>, status |-> None]

\* the page once mounted with nothing saved in localStorage: the mount effect
\* (line 543) has called fetchOpportunities, the effect on [opportunities]
\* has returned early
Init ==
    /\ fn = "Opportunities"
    /\ arg = NoSavedCall
    /\ ret = <<>>
    /\ opportunities = <<>>
    /\ loading = TRUE
    /\ error = None
    /\ searchQuery = <<>>
    /\ sortedScores = <<>>
    /\ savedOpportunities = <<>>
    /\ filters = InitialFilters
    /\ sortBy = "date"
    /\ showFilterMenu = FALSE
    /\ pending = <<FetchRequest>>
    /\ storedProfile \in StoredProfiles
    /\ everStored = {}
    /\ displayed = "none"

\* setOpportunities(results), then the effect on [opportunities] (lines
\* 666-686) on the new array
SetOpportunities(results) ==
    LET scores == NewScores(results, storedProfile)
    IN  /\ opportunities' = results
        /\ sortedScores' = IF IsSome(scores) THEN Get(scores) ELSE sortedScores
        /\ everStored' =
             IF IsSome(scores)
             THEN everStored \cup {<<id, Get(scores)[id]>> : id \in DOMAIN Get(scores)}
             ELSE everStored

\* lines 547-554: fetchOpportunities up to its await
FetchOpportunities ==
    /\ Len(pending) < MaxPending
    /\ loading' = TRUE
    /\ error' = None
    /\ pending' = Append(pending, FetchRequest)
    /\ UNCHANGED <<opportunities, sortedScores, everStored>>

\* line 860: onChange of the search box
SetSearchQuery(value) ==
    /\ fn = "Opportunities"
    /\ value # searchQuery
    /\ searchQuery' = value
    /\ UNCHANGED <<opportunities, loading, error, sortedScores, pending, storedProfile, everStored>>
    /\ UNCHANGED <<callVars, panelVars, savedVars>>

\* lines 763-771: handleSearch up to its await
HandleSearch ==
    /\ fn = "Opportunities"
    /\ Len(Trim(searchQuery)) > 0
    /\ Len(pending) < MaxPending
    /\ loading' = TRUE
    /\ error' = None
    /\ pending' = Append(pending, SearchRequest(searchQuery))
    /\ UNCHANGED <<opportunities, searchQuery, sortedScores, storedProfile, everStored>>
    /\ UNCHANGED <<callVars, panelVars, savedVars>>

\* the "Reset Search" button of the empty state (line 1034): fetchOpportunities
ResetSearch ==
    /\ fn = "Opportunities"
    /\ ~loading /\ error = None /\ Len(FilteredOpportunities) = 0
    /\ FetchOpportunities
    /\ UNCHANGED <<searchQuery, storedProfile>>
    /\ UNCHANGED <<callVars, panelVars, savedVars>>

\* a fetch waits 1000 ms and a search 1500 ms: a request can finish before
\* an older one only if it is a fetch and the older ones are searches
CanResolve(k) ==
    \A j \in 1..(k - 1) : pending[j].kind = "search" /\ pending[k].kind = "fetch"
RemoveAt(s, k) == SubSeq(s, 1, k - 1) \o SubSeq(s, k + 1, Len(s))

\* a request's delay elapses (lines 556-564, 776-799): the new opportunities
\* are set, loading is cleared, and the effect on [opportunities] runs
ResolveRequest ==
    /\ fn = "Opportunities"
    /\ \E k \in 1..Len(pending) :
         /\ CanResolve(k)
         /\ SetOpportunities(IF pending[k].kind = "fetch" THEN GenerateOpportunities
                             ELSE SearchResults(pending[k].query))
         /\ displayed' = IF pending[k].kind = "fetch" THEN "all" ELSE "search"
         /\ pending' = RemoveAt(pending, k)
    /\ loading' = FALSE
    /\ UNCHANGED <<error, searchQuery, storedProfile, savedOpportunities>>
    /\ UNCHANGED <<callVars, panelVars>>

\* the profile editor (another page) writes or removes localStorage 'userProfile'
StoreUserProfile(profile) ==
    /\ fn = "Opportunities"
    /\ profile # storedProfile
    /\ storedProfile' = profile
    /\ UNCHANGED <<opportunities, loading, error, searchQuery, sortedScores, pending, everStored>>
    /\ UNCHANGED <<callVars, panelVars, savedVars>>

Next ==
    \/ \E value \in PageQueries : SetSearchQuery(value)
    \/ HandleSearch
    \/ ResetSearch
    \/ ResolveRequest
    \/ \E profile \in StoredProfiles : StoreUserProfile(profile)

Spec == Init /\ [][Next]_vars

-----------------------------------------------------------------------------
(* Saving opportunities and their application status: SpecSaved *)

\* lines 520-528
statusOptions == <<
    <<78, 111, 116, 101, 100>>,                                          \* 'Noted'
    <<83, 116, 97, 114, 116, 101, 100, 32, 65, 112, 112, 108, 121, 105, 110, 103>>,
                                                                         \* 'Started Applying'
    <<65, 112, 112, 108, 105, 101, 100>>,                                \* 'Applied'
    <<83, 104, 111, 114, 116, 108, 105, 115, 116, 101, 100>>,            \* 'Shortlisted'
    <<82, 101, 106, 101, 99, 116, 101, 100>>,                            \* 'Rejected'
    <<73, 110, 116, 101, 114, 118, 105, 101, 119>>,                      \* 'Interview'
    <<80, 108, 97, 99, 101, 100>> >>                                     \* 'Placed'

\* the cards on screen (lines 1041-1062): none while loading or in error.
\* The sort only orders them; the user reaches the first MaxCards of the list.
Cards ==
    IF ~loading /\ error = None
    THEN {FilteredOpportunities[k] : k \in 1..Min(Len(FilteredOpportunities), MaxCards)}
    ELSE {}

\* line 827-829
IsOpportunitySaved(opportunityId) ==
    \E k \in 1..Len(savedOpportunities) : savedOpportunities[k].id = opportunityId

\* the last call that set savedOpportunities
SavedCall(handler, opportunity, status) ==
    [handler |-> handler, id |-> opportunity.id, status |-> status]

\* lines 815-825, from a card's save button (line 1055)
HandleSaveOpportunityAlwaysAppends(opportunity) ==
    /\ fn = "Opportunities"
    /\ opportunity \in Cards
    /\ Len(savedOpportunities) < MaxSaved
    /\ savedOpportunities' = Append(savedOpportunities, opportunity)
    /\ arg' = SavedCall("handleSaveOpportunity", opportunity, None)
    /\ UNCHANGED <<fn, ret, panelVars, displayed>>
    /\ UNCHANGED <<opportunities, loading, error, searchQuery, sortedScores, pending,
                   storedProfile, everStored>>
HandleSaveOpportunity(opportunity) ==
    /\ fn = "Opportunities"
    /\ opportunity \in Cards
    /\ LET isAlreadySaved == IsOpportunitySaved(opportunity.id)
           OtherId(saved) == saved.id # opportunity.id
       IN  IF isAlreadySaved
           THEN savedOpportunities' = SelectSeq(savedOpportunities, OtherId)
           ELSE /\ Len(savedOpportunities) < MaxSaved
                /\ savedOpportunities' = Append(savedOpportunities, opportunity)
    /\ arg' = SavedCall("handleSaveOpportunity", opportunity, None)
    /\ UNCHANGED <<fn, ret, panelVars, displayed>>
    /\ UNCHANGED <<opportunities, loading, error, searchQuery, sortedScores, pending,
                   storedProfile, everStored>>

\* { ...opp, status }
WithStatus(opp, status) ==
    [f \in DOMAIN opp \cup {"status"} |-> IF f = "status" THEN status ELSE opp[f]]

\* lines 831-841
HandleStatusChange(opportunityId, status) ==
    savedOpportunities' =
        [k \in 1..Len(savedOpportunities) |->
            IF savedOpportunities[k].id = opportunityId
            THEN WithStatus(savedOpportunities[k], status)
            ELSE savedOpportunities[k]]

\* line 1057, the prop the page gives the card:
\*   onStatusChange={(status) => handleStatusChange(opportunity.id, status)}
\* called with the arguments the card passes; the arrow function has one
\* parameter, so it takes the first and drops the rest
OnStatusChange(opportunity, first, second) ==
    HandleStatusChange(opportunity.id, first)

\* lines 362-370: an option of a card's status dropdown is clicked:
\*   onStatusChange(opportunity.id, status)
ChooseStatus(opportunity, status) ==
    /\ fn = "Opportunities"
    /\ opportunity \in Cards
    /\ OnStatusChange(opportunity, opportunity.id, status)
    /\ arg' = SavedCall("onStatusChange", opportunity, Some(status))
    /\ UNCHANGED <<fn, ret, panelVars, displayed>>
    /\ UNCHANGED <<opportunities, loading, error, searchQuery, sortedScores, pending,
                   storedProfile, everStored>>

\* line 997: the text of the saved/all button
ToggleLabel ==
    IF Len(opportunities) = Len(savedOpportunities) THEN "Show All" ELSE "Show Saved Only"

\* lines 985-1000: the saved/all button, rendered when something is saved
ToggleSaved ==
    /\ fn = "Opportunities"
    /\ Len(savedOpportunities) > 0
    /\ IF Len(opportunities) = Len(savedOpportunities)
       THEN /\ FetchOpportunities
            /\ UNCHANGED displayed
       ELSE /\ SetOpportunities(savedOpportunities)
            /\ displayed' = "saved"
            /\ UNCHANGED <<loading, error, pending>>
    /\ UNCHANGED <<searchQuery, storedProfile, savedOpportunities>>
    /\ UNCHANGED <<callVars, panelVars>>

\* the page with no profile in storage
SavedInit == Init /\ storedProfile = None

\* the options of the dropdown the user picks
StatusChoices == {statusOptions[1], statusOptions[Len(statusOptions)]}

SavedNext ==
    \/ ResolveRequest
    \/ \E opportunity \in Cards : HandleSaveOpportunity(opportunity)
    \/ \E opportunity \in Cards : \E status \in StatusChoices : ChooseStatus(opportunity, status)
    \/ ToggleSaved

SpecSaved == SavedInit /\ [][SavedNext]_vars

-----------------------------------------------------------------------------
(* The filter panel: SpecPanel *)

FilterNames == {"fullyFunded", "international", "hasDeadline", "hasSupervisor"}
\* lines 531-534
sortOptions == {"date", "compatibility"}

\* line 877: the Filters button
ToggleFilterMenu ==
    /\ fn = "Opportunities"
    /\ showFilterMenu' = ~showFilterMenu
    /\ UNCHANGED <<filters, sortBy>>
    /\ UNCHANGED <<opportunities, loading, error, searchQuery, sortedScores, pending,
                   storedProfile, everStored>>
    /\ UNCHANGED <<callVars, savedVars>>

\* lines 802-807, from a button of the open filter menu (lines 918-941)
ToggleFilter(filterName) ==
    /\ fn = "Opportunities"
    /\ showFilterMenu
    /\ filters' = [filters EXCEPT ![filterName] = ~@]
    /\ UNCHANGED <<sortBy, showFilterMenu>>
    /\ UNCHANGED <<opportunities, loading, error, searchQuery, sortedScores, pending,
                   storedProfile, everStored>>
    /\ UNCHANGED <<callVars, savedVars>>

\* lines 904-910: "Reset all"
ResetAllFilters ==
    /\ fn = "Opportunities"
    /\ showFilterMenu
    /\ filters' = [fullyFunded |-> FALSE, international |-> FALSE, hasDeadline |-> FALSE,
                   hasSupervisor |-> FALSE, subjects |-> <<>>]
    /\ UNCHANGED <<sortBy, showFilterMenu>>
    /\ UNCHANGED <<opportunities, loading, error, searchQuery, sortedScores, pending,
                   storedProfile, everStored>>
    /\ UNCHANGED <<callVars, savedVars>>

\* line 951: the sort select
SetSortBy(value) ==
    /\ fn = "Opportunities"
    /\ showFilterMenu
    /\ value # sortBy
    /\ sortBy' = value
    /\ UNCHANGED <<filters, showFilterMenu>>
    /\ UNCHANGED <<opportunities, loading, error, searchQuery, sortedScores, pending,
                   storedProfile, everStored>>
    /\ UNCHANGED <<callVars, savedVars>>

\* Object.values(filters).filter(Boolean).length: the four flags and
\* subjects, an array, which is truthy even when empty
TruthyValues(f) == Cardinality({name \in FilterNames : f[name]}) + 1

\* lines 884-888: the number in the badge of the Filters button, if shown
FilterBadge ==
    IF \E name \in FilterNames : filters[name] THEN Some(TruthyValues(filters)) ELSE None

PanelNext ==
    \/ ResolveRequest
    \/ ToggleFilterMenu
    \/ \E filterName \in FilterNames : ToggleFilter(filterName)
    \/ ResetAllFilters
    \/ \E value \in sortOptions : SetSortBy(value)

SpecPanel == SavedInit /\ [][PanelNext]_vars

-----------------------------------------------------------------------------
(* searchOpportunities, src/searchService.js 113-241 *)

Str_oppDash == <<111, 112, 112, 45>>   \* 'opp-'

\* keyword || fallback
KeywordOr(keyword, fallback) == IF Len(keyword) > 0 THEN keyword ELSE fallback

\* lines 131-196: the three mock opportunities (the fields the filters, the
\* sort and the caller's lookup by id read, and the title)
mockOpportunities(keyword) == <<
    [id |-> Str_oppDash \o NumberToString(GenerateScore(keyword \o <<49>>)),
     title |-> <<80, 104, 68, 32, 105, 110, 32>>                    \* `PhD in ${...} Research`
               \o KeywordOr(keyword, <<67, 111, 109, 112, 117, 116, 101, 114, 32,
                                       83, 99, 105, 101, 110, 99, 101>>)
               \o <<32, 82, 101, 115, 101, 97, 114, 99, 104>>,
     deadline |-> <<50, 48, 50, 53, 45, 48, 54, 45, 49, 53>>,       \* '2025-06-15'
     fullyFunded |-> TRUE,
     international |-> TRUE,
     supervisor |-> <<80, 114, 111, 102, 46, 32, 83, 109, 105, 116, 104>>],  \* 'Prof. Smith'
    [id |-> Str_oppDash \o NumberToString(GenerateScore(keyword \o <<50>>)),
     title |-> <<80, 104, 68, 32, 80, 111, 115, 105, 116, 105, 111, 110, 32, 105, 110, 32>>
                                                    \* `PhD Position in ${...} and Computing`
               \o KeywordOr(keyword, <<80, 104, 121, 115, 105, 99, 115>>)
               \o <<32, 97, 110, 100, 32, 67, 111, 109, 112, 117, 116, 105, 110, 103>>,
     deadline |-> <<50, 48, 50, 53, 45, 48, 53, 45, 48, 49>>,       \* '2025-05-01'
     fullyFunded |-> TRUE,
     international |-> TRUE,
     supervisor |-> <<80, 114, 111, 102, 46, 32, 74, 111, 104, 110, 115, 111, 110>>],
                                                                    \* 'Prof. Johnson'
    [id |-> Str_oppDash \o NumberToString(GenerateScore(keyword \o <<51>>)),
     title |-> <<80, 104, 68, 32, 83, 99, 104, 111, 108, 97, 114, 115, 104, 105, 112, 32,
                 105, 110, 32>>                                     \* `PhD Scholarship in ${...}`
               \o KeywordOr(keyword, <<68, 97, 116, 97, 32, 83, 99, 105, 101, 110, 99, 101>>),
     deadline |-> <<50, 48, 50, 53, 45, 48, 52, 45, 51, 48>>,       \* '2025-04-30'
     fullyFunded |-> FALSE,
     international |-> FALSE,
     supervisor |-> <<80, 114, 111, 102, 46, 32, 67, 104, 101, 110>>] >>     \* 'Prof. Chen'

\* lines 199-217: one filter per flag that is on
SearchFilter(opps, flags) ==
    LET Keep(opp) ==
            /\ flags.fullyFunded => opp.fullyFunded
            /\ flags.international => opp.international
            /\ flags.hasDeadline => Len(opp.deadline) > 0
            /\ flags.hasSupervisor => Len(opp.supervisor) > 0
    IN  SelectSeq(opps, Keep)

\* lines 220-229: the comparator, in days for dateA - dateB
CompareDeadlinesDescending(a, b) ==
    LET dateA == NewDate(a.deadline)
        dateB == NewDate(b.deadline)
    IN  IF dateA.nan /\ dateB.nan THEN 0
        ELSE IF dateA.nan THEN 1
        ELSE IF dateB.nan THEN -1
        ELSE dateB.t - dateA.t
CompareDeadlines(a, b) ==
    LET dateA == NewDate(a.deadline)
        dateB == NewDate(b.deadline)
    IN  IF dateA.nan /\ dateB.nan THEN 0
        ELSE IF dateA.nan THEN 1
        ELSE IF dateB.nan THEN -1
        ELSE dateA.t - dateB.t

\* Array.prototype.sort under this comparator (consistent: invalid dates
\* compare equal to each other and after every valid one), stable
RECURSIVE InsertByDeadline(_, _, _)
InsertByDeadline(sorted, x, j) ==
    IF j >= 1 /\ CompareDeadlines(x, sorted[j]) < 0
    THEN InsertByDeadline(sorted, x, j - 1)
    ELSE SubSeq(sorted, 1, j) \o <<x>> \o SubSeq(sorted, j + 1, Len(sorted))
RECURSIVE SortByDeadlineFrom(_, _, _)
SortByDeadlineFrom(items, i, sorted) ==
    IF i > Len(items) THEN sorted
    ELSE LET next == InsertByDeadline(sorted, items[i], Len(sorted))
         IN  IF Len(next) >= 0 THEN SortByDeadlineFrom(items, i + 1, next) ELSE next

SearchPending == [kind |-> "pending", success |-> FALSE, opportunities |-> <<>>]
\* lines 113-234: what the promise resolves to
SearchOpportunities(keyword, flags) ==
    [kind |-> "value", success |-> TRUE,
     opportunities |-> SortByDeadlineFrom(SearchFilter(mockOpportunities(keyword), flags), 1, <<>>)]

-----------------------------------------------------------------------------
(* searchOpportunities called on every input: SpecSearch *)

Str_AI == <<65, 73>>                                           \* "AI"
Str_aeaswplo == <<97, 101, 97, 115, 119, 112, 108, 111>>       \* accumulator of keyword + '1': -1
Str_wvydzwy == <<119, 118, 121, 100, 122, 119, 121>>           \* 2^31 - 1
Str_esmwejp == <<101, 115, 109, 119, 101, 106, 112>>           \* 2^31 - 2
SearchKeywords ==
    SeqsUpTo(HashAlphabet, MaxStrLen) \cup {Str_AI, Str_aeaswplo, Str_wvydzwy, Str_esmwejp}
SearchFilters ==
    [fullyFunded : BOOLEAN, international : BOOLEAN, hasDeadline : BOOLEAN, hasSupervisor : BOOLEAN]

SearchInit ==
    /\ fn = "searchOpportunities"
    /\ arg \in [keyword : SearchKeywords, filters : SearchFilters]
    /\ ret = SearchPending
    /\ PageIdle

\* the 1500 ms delay elapses and the promise resolves
CallSearchOpportunities ==
    /\ fn = "searchOpportunities"
    /\ ret.kind = "pending"
    /\ ret' = SearchOpportunities(arg.keyword, arg.filters)
    /\ UNCHANGED <<fn, arg>>
    /\ UNCHANGED pageVars

SearchNext == CallSearchOpportunities

SpecSearch == SearchInit /\ [][SearchNext]_vars

-----------------------------------------------------------------------------
(* The deadline line of OpportunityCard, src/OpportunityCard.jsx 173-241, 305-315 *)

\* Local time: an instant is [day |-> days from the epoch, hour |-> 0..23];
\* a Date made by parseISO from a date-only string is the local midnight of
\* its day, or an Invalid Date (NaN).

\* parseISO (date-fns) of a date-only string
ParseISO(s) == NewDate(s)

\* differenceInDays(dateLeft, dateRight) of date-fns: the number of full
\* days between the two instants, truncated towards zero; NaN for an
\* Invalid Date
DifferenceInDays(dateLeft, today) ==
    IF dateLeft.nan THEN NaN
    ELSE LET hours == (dateLeft.t - today.day) * 24 - today.hour
         IN  TimeValue(IF hours >= 0 THEN hours \div 24 ELSE -((-hours) \div 24))

\* isBefore(date, dateToCompare) of date-fns: false for an Invalid Date
IsBefore(date, today) ==
    ~date.nan /\ date.t * 24 < today.day * 24 + today.hour

DeadlineText(template, n, date) == [kind |-> "value", template |-> template, n |-> n, date |-> date]
DeadlineTextPending == [kind |-> "pending", template |-> "", n |-> 0, date |-> NaN]

\* lines 173-198. The text is kept as its template, the number in it and the
\* date format(deadlineDate, 'MMM d, yyyy') prints; format throws a
\* RangeError on an Invalid Date, which the catch turns into the raw text.
FormatDeadline(deadline, today) ==
    IF ~TruthyString(deadline) THEN DeadlineText("No deadline specified", 0, NaN)
    ELSE LET deadlineDate == ParseISO(Get(deadline))
             daysUntil == DifferenceInDays(deadlineDate, today)
         IN  IF daysUntil.nan THEN DeadlineText("Deadline: raw", 0, NaN)
             ELSE IF daysUntil.t < 0 THEN DeadlineText("Deadline passed", 0, deadlineDate)
             ELSE IF daysUntil.t = 0 THEN DeadlineText("Deadline is today", 0, deadlineDate)
             ELSE IF daysUntil.t = 1 THEN DeadlineText("Deadline is tomorrow", 0, deadlineDate)
             ELSE IF daysUntil.t < 7 THEN DeadlineText("Deadline in days", daysUntil.t, deadlineDate)
             ELSE IF daysUntil.t < 30
                  THEN DeadlineText("Deadline in weeks", daysUntil.t \div 7, deadlineDate)
             ELSE DeadlineText("Deadline: date", 0, deadlineDate)

\* lines 215-227
IsDeadlineApproaching(deadline, today) ==
    /\ TruthyString(deadline)
    /\ LET daysUntil == DifferenceInDays(ParseISO(Get(deadline)), today)
       IN  ~daysUntil.nan /\ daysUntil.t >= 0 /\ daysUntil.t <= 14

\* lines 229-241
IsDeadlinePassed(deadline, today) ==
    /\ TruthyString(deadline)
    /\ IsBefore(ParseISO(Get(deadline)), today)

\* lines 306-312: the colour of the line
DeadlineClass(deadline, today) ==
    IF IsDeadlinePassed(deadline, today) THEN "text-red-500"
    ELSE IF IsDeadlineApproaching(deadline, today) THEN "text-orange-500"
    ELSE "text-gray-600"

-----------------------------------------------------------------------------
(* The deadline line rendered for every deadline and time: SpecDeadline *)

CardDeadlines ==
    {None, Some(<<>>), Some(Str_Jan15), Some(Str_Feb10), Some(Str_soon),
     Some(Str_DeadlineNotSpecified)}
\* the times of rendering: the days within MaxDaysApart of 2025-01-15, at
\* midnight, in the first hour after it, at noon and in the last hour
CardTimes ==
    [day : {DaysFromEpoch(2025, 1, 15) + d : d \in (0 - MaxDaysApart)..MaxDaysApart},
     hour : {0, 1, 12, 23}]

DeadlineInit ==
    /\ fn = "OpportunityCard"
    /\ arg \in [deadline : CardDeadlines, today : CardTimes]
    /\ ret = [text |-> DeadlineTextPending, class |-> ""]
    /\ PageIdle

\* the card renders: new Date() is arg.today in each of the three helpers
RenderDeadline ==
    /\ fn = "OpportunityCard"
    /\ ret.text.kind = "pending"
    /\ ret' = [text |-> FormatDeadline(arg.deadline, arg.today),
               class |-> DeadlineClass(arg.deadline, arg.today)]
    /\ UNCHANGED <<fn, arg>>
    /\ UNCHANGED pageVars

DeadlineNext == RenderDeadline

SpecDeadline == DeadlineInit /\ [][DeadlineNext]_vars

-----------------------------------------------------------------------------
(* CalendarPopup.handleSave, src/CalendarPopup.jsx 33-59 *)

\* An instant is [day |-> days from the epoch, hour |-> 0..23] in UTC, on
\* the hour. The year, month and day of a day count:
CivilFromDays(days) ==
    LET z == days + 719468
        era == z \div 146097
        doe == z - era * 146097
        yoe == (doe - doe \div 1460 + doe \div 36524 - doe \div 146096) \div 365
        doy == doe - (365 * yoe + yoe \div 4 - yoe \div 100)
        mp == (5 * doy + 2) \div 153
        m == IF mp < 10 THEN mp + 3 ELSE mp - 9
    IN  [y |-> yoe + era * 400 + (IF m <= 2 THEN 1 ELSE 0),
         m |-> m,
         d |-> doy - (153 * mp + 2) \div 5 + 1]

\* Date.prototype.toISOString: YYYY-MM-DDTHH:mm:ss.sssZ
ToISOString(date) ==
    LET c == CivilFromDays(date.day)
    IN  PadStart(NumberToString(c.y), 4, Str_0) \o <<45>>
        \o PadStart(NumberToString(c.m), 2, Str_0) \o <<45>>
        \o PadStart(NumberToString(c.d), 2, Str_0) \o <<84>>                 \* T
        \o PadStart(NumberToString(date.hour), 2, Str_0)
        \o <<58, 48, 48, 58, 48, 48, 46, 48, 48, 48, 90>>                    \* :00:00.000Z

\* Date.now().toString(): the milliseconds since the epoch, 3600000 an hour
DateNowToString(now) ==
    NumberToString((now.day * 24 + now.hour) * 36) \o <<48, 48, 48, 48, 48>>

\* events.push(event)
PushEventInFront(events, event) == <<event>> \o events
PushEvent(events, event) == Append(events, event)

\* The localStorage item 'calendarEvents' is kept parsed:
\*   [kind |-> "absent", items |-> <<>>]   no item (getItem returns null)
\*   [kind |-> "array", items |-> events]  the JSON text of an array of events
\*   [kind |-> "other", items |-> <<>>]    JSON text of another value, or no JSON
\* JSON.parse of JSON.stringify gives back an array of objects whose values
\* are strings, which the events are, unchanged.
CalendarOutcome(kind, stored, calls) == [kind |-> kind, stored |-> stored, calls |-> calls]

\* lines 33-59. props: whether onSave and onClose are given; state: the
\* component's date, title, description, eventType
HandleSave(props, state, stored, now) ==
    LET closing == IF props.onClose THEN << <<"onClose">> >> ELSE <<>>
    IN  IF props.onSave
        THEN CalendarOutcome("value", stored,
                << <<"onSave", [date |-> state.date, title |-> state.title,
                                description |-> state.description,
                                eventType |-> state.eventType]>> >> \o closing)
        ELSE IF stored.kind = "other"
             \* JSON.parse throws a SyntaxError, or events.push is not a function
             THEN CalendarOutcome("raise", stored, <<>>)
             ELSE CalendarOutcome("value",
                     [kind |-> "array",
                      items |-> PushEvent(stored.items,
                                    [id |-> DateNowToString(now),
                                     date |-> ToISOString(state.date),
                                     title |-> state.title,
                                     description |-> state.description,
                                     eventType |-> state.eventType])],
                     closing)

-----------------------------------------------------------------------------
(* handleSave called on every input: SpecCalendar *)

\* lines 158-161: the options of the event type select
EventTypes == {"deadline", "meeting", "academic", "personal"}
Str_Exam == <<69, 120, 97, 109>>   \* "Exam"
\* events another save left in storage
StoredEvent(k) ==
    [id |-> DateNowToString([day |-> DaysFromEpoch(2025, 1, k), hour |-> 9]),
     date |-> ToISOString([day |-> DaysFromEpoch(2025, 3, k), hour |-> 0]),
     title |-> Str_Exam, description |-> <<>>,
     eventType |-> IF k = 1 THEN "academic" ELSE "deadline"]
StoredCalendars ==
    {[kind |-> "absent", items |-> <<>>], [kind |-> "other", items |-> <<>>]}
    \cup {[kind |-> "array", items |-> l] : l \in SeqsUpTo({StoredEvent(1), StoredEvent(2)}, MaxEvents)}
CalendarStates ==
    [date : {[day |-> DaysFromEpoch(2025, 6, 15), hour |-> 0],
             [day |-> DaysFromEpoch(2024, 12, 31), hour |-> 23]},
     title : {<<>>, Str_QuantumComputing},
     description : {<<>>},
     eventType : EventTypes]

CalendarPending == CalendarOutcome("pending", [kind |-> "absent", items |-> <<>>], <<>>)

CalendarInit ==
    /\ fn = "CalendarPopup.handleSave"
    /\ arg \in [props : [onSave : BOOLEAN, onClose : BOOLEAN],
                state : CalendarStates,
                stored : StoredCalendars,
                now : {[day |-> DaysFromEpoch(2025, 1, 15), hour |-> 10]}]
    /\ ret = CalendarPending
    /\ PageIdle

\* the "Add to Calendar" button of the popup is clicked
CallHandleSave ==
    /\ fn = "CalendarPopup.handleSave"
    /\ ret.kind = "pending"
    /\ ret' = HandleSave(arg.props, arg.state, arg.stored, arg.now)
    /\ UNCHANGED <<fn, arg>>
    /\ UNCHANGED pageVars

CalendarNext == CallHandleSave

SpecCalendar == CalendarInit /\ [][CalendarNext]_vars

-----------------------------------------------------------------------------
(* Properties of calculateCompatibilityScore (SpecScore) *)

ScoreCalled == fn = "calculateCompatibilityScore" /\ ret.kind # "pending"
BothGiven == IsSome(arg.opportunity) /\ IsSome(arg.userProfile)

\* C1: calculateCompatibilityScore returns exactly 50 whenever the opportunity
\* is null or the user profile is null, whatever the other argument is.
C1_NullArgumentGives50 ==
    (ScoreCalled /\ ~BothGiven) => (ret.kind = "value" /\ ret.val = 50)

\* a call with an opportunity (its subjects a comma-delimited string) and no profile
C1_Witness ==
    /\ ScoreCalled
    /\ IsSome(arg.opportunity)
    /\ Get(arg.opportunity).subjects.kind = "string"
    /\ ~IsSome(arg.userProfile)
    /\ ret.val = 50

\* C2: for every non-null opportunity and non-null user profile the call
\* returns an integer in [0, 100].
C2_ScoreInRange ==
    (ScoreCalled /\ BothGiven) => (ret.kind = "value" /\ ret.val \in 0..100)

\* C22: calculateCompatibilityScore is total over the documented domain: it
\* returns a score without raising when opportunity.subjects is a sequence of
\* strings, when it is a comma-delimited string, and when subjects or
\* interests are absent.
C22_ScoreIsTotal ==
    ScoreCalled => ret.kind = "value"

\* the pairs (user interest, opportunity subject) in which, lower-cased, one
\* string contains the other
MatchingPairs(interests, subjects) ==
    {pr \in (1..Len(interests)) \X (1..Len(subjects)) :
        LET a == ToLowerCase(interests[pr[1]])
            b == ToLowerCase(subjects[pr[2]])
        IN  Includes(a, b) \/ Includes(b, a)}

PairCount ==
    LET o == Get(arg.opportunity)
        p == Get(arg.userProfile)
    IN  IF p.interests.kind = "array" /\ o.subjects.kind = "array"
        THEN Cardinality(MatchingPairs(p.interests.items, o.subjects.items))
        ELSE 0

\* C3: the interest bonus equals min(20, 5 * N), N the number of matching
\* pairs, so it never exceeds 20; the returned score is clamp(base + bonus, 0, 100).
C3_BonusIsCappedPairCount ==
    (ScoreCalled /\ BothGiven /\ ret.kind = "value") =>
        /\ ret.interestBonus = Min(20, 5 * PairCount)
        /\ ret.interestBonus <= 20
        /\ ret.val = Min(Max(ret.baseScore + ret.interestBonus, 0), 100)

\* more than four matching pairs (the cap cuts) and base + bonus above 100 (the clamp cuts)
C3_Witness ==
    /\ ScoreCalled /\ BothGiven /\ ret.kind = "value"
    /\ PairCount >= 5
    /\ ret.baseScore + ret.interestBonus > 100
    /\ ret.val = 100

BaseText == Combined(Get(arg.opportunity).id, UserIdOrDefault(Get(arg.userProfile)))

\* C4: the base score equals boundedHash(text, 0, 100) = 0 + (hash(text) % 100),
\* hash(text) the absolute value of the 32-bit accumulator (hashCode), for every
\* text, also when the accumulator is negative or -2^31; it lies in [0, 100).
C4_BaseScoreIsBoundedHash ==
    (ScoreCalled /\ BothGiven) =>
        /\ ret.baseScore = 0 + NumMod(HashCode(BaseText), 100 - 0)
        /\ ret.baseScore \in 0..99

\* the text "opp-42-peclzsh", whose accumulator is -2^31
C4_Witness ==
    /\ ScoreCalled /\ BothGiven
    /\ HashAccumulator(BaseText) = Num(-(2^15), 0)
    /\ HashCode(BaseText) = Num(2^15, 0)
    /\ ret.baseScore = 48

-----------------------------------------------------------------------------
(* Properties of hashCode (SpecHash) *)

HashCodeCalled == fn = "hashCode" /\ ret.kind = "value"

\* C5: hashCode is total: hashCode("") = 0 and hashCode(s) is a non-negative
\* integer for every string s.
C5_HashCodeNonNegative ==
    (fn = "hashCode" /\ ret.kind # "pending") =>
        /\ ret.kind = "value"
        /\ IsNum(ret.num)
        /\ ~NumIsNeg(ret.num)
        /\ (Len(arg) = 0 => ret.num = NumZero)

\* a string whose accumulator ends negative
C5_Witness ==
    /\ HashCodeCalled
    /\ NumIsNeg(HashAccumulator(arg))
    /\ ~NumIsNeg(ret.num)

\* the step as the claim words it: hash = (hash * 31 - hash) + codepoint, wrapped
RECURSIVE ClaimedLoop(_, _, _)
ClaimedLoop(str, i, hash) ==
    IF i > Len(str) THEN hash
    ELSE LET next == ToInt32(NumAdd(NumSub(NumMul(hash, 31), hash), NumOf(str[i])))
         IN  IF IsNum(next) THEN ClaimedLoop(str, i + 1, next) ELSE next

\* the step hash = hash * 31 + codepoint (= (hash * 32 - hash) + codepoint), wrapped
RECURSIVE Times31Loop(_, _, _)
Times31Loop(str, i, hash) ==
    IF i > Len(str) THEN hash
    ELSE LET next == ToInt32(NumAdd(NumMul(hash, 31), NumOf(str[i])))
         IN  IF IsNum(next) THEN Times31Loop(str, i + 1, next) ELSE next

\* C6 as stated: hashCode(s) = abs of the accumulator of
\* hash = (hash * 31 - hash) + codepoint with 32-bit signed wraparound.
C6_AsStated ==
    HashCodeCalled => ret.num = MathAbs(ClaimedLoop(arg, 1, NumZero))

\* C6 amended: hashCode(s) = abs of the accumulator of
\* hash = (hash * 32 - hash) + codepoint = hash * 31 + codepoint, wrapped to a
\* 32-bit signed integer after each step.
C6_HashCodeIsTimes31 ==
    HashCodeCalled => ret.num = MathAbs(Times31Loop(arg, 1, NumZero))

\* "GydZG_": the accumulator wraps to -2^31 and the result is 2^31
C6_Witness ==
    /\ HashCodeCalled
    /\ Len(arg) = 6
    /\ ret.num = Num(2^15, 0)

-----------------------------------------------------------------------------
(* Properties of extractKeywords (SpecKw) *)

KeywordsCalled == fn = "extractKeywords" /\ ret.kind # "pending"

\* C7: extractKeywords returns at most 3 strings, each of length >= 4, each
\* made only of word characters, none of them a stop word.
C7_KeywordsWellFormed ==
    KeywordsCalled =>
        /\ ret.kind = "value"
        /\ Len(ret.val) <= 3
        /\ \A k \in 1..Len(ret.val) :
            /\ Len(ret.val[k]) >= 4
            /\ \A i \in 1..Len(ret.val[k]) : IsWordChar(ret.val[k][i])
            /\ ret.val[k] \notin StopWords

\* a title with "Research:" (a stop word once cleaned) and "the" (too short),
\* in a text with more than three tokens that survive
C7_Witness ==
    /\ KeywordsCalled
    /\ arg.title.kind = "string"
    /\ Includes(arg.title.items[1], Str_ResearchColon)
    /\ Includes(arg.title.items[1], Str_the)
    /\ arg.description.kind = "string"
    /\ arg.requirements.kind = "array"
    /\ Len(ret.val) = 3

\* the tokens that survive cleaning, the length test and the stop words, in
\* the order of the text
Survivors ==
    LET words == SplitWhitespace(KeywordText(arg))
        Survives(w) == Len(w) >= 4 /\ w \notin StopWords
    IN  SelectSeq([k \in 1..Len(words) |-> CleanWord(words[k])], Survives)

\* the distinct tokens of t by descending number of occurrences, then by
\* first occurrence; the first three of them
TopByFrequency(t) ==
    LET distinct == {t[k] : k \in 1..Len(t)}
        count(w) == Cardinality({k \in 1..Len(t) : t[k] = w})
        first(w) == CHOOSE k \in 1..Len(t) : t[k] = w /\ \A j \in 1..(k - 1) : t[j] # w
        before(v, w) == count(v) > count(w) \/ (count(v) = count(w) /\ first(v) < first(w))
        rank(w) == Cardinality({v \in distinct : before(v, w)})
    IN  [k \in 1..Min(3, Cardinality(distinct)) |-> CHOOSE w \in distinct : rank(w) = k - 1]

\* C8: extractKeywords returns the 3 most frequent surviving tokens by
\* descending count, ties by first appearance in the text, for every token
\* alphabet (digits-only tokens, names of built-in object properties).
C8_TopThreeByFrequency ==
    KeywordsCalled => ret.val = TopByFrequency(Survivors)

AllAbsent == \A k \in 1..5 : FieldList(arg)[k].kind = "absent"

\* C9: extractKeywords never raises when text fields are absent: absent
\* fields are skipped (every keyword comes from a field that is present),
\* and with all five absent the result is the empty sequence.
C9_AbsentFieldsSkipped ==
    KeywordsCalled =>
        /\ ret.kind = "value"
        /\ (AllAbsent => ret.val = <<>>)
        /\ \A k \in 1..Len(ret.val) :
            \E f \in 1..5 :
                /\ FieldList(arg)[f].kind # "absent"
                /\ Includes(CleanWord(ToLowerCase(FieldString(FieldList(arg)[f]))), ret.val[k])

\* title, department and subjects absent, description and requirements given
C9_Witness ==
    /\ KeywordsCalled
    /\ arg.title.kind = "absent"
    /\ arg.department.kind = "absent"
    /\ arg.subjects.kind = "absent"
    /\ arg.description.kind = "string"
    /\ arg.requirements.kind = "array"
    /\ Len(ret.val) = 3

-----------------------------------------------------------------------------
(* Properties of getSortedAndFilteredOpportunities (SpecFilter) *)

FilterCalled == fn = "getSortedAndFilteredOpportunities" /\ ret.kind # "pending"

\* the elements of s at the indices I, in ascending order of index
ElementsAt(s, I) ==
    [k \in 1..Cardinality(I) |-> s[CHOOSE i \in I : Cardinality({j \in I : j < i}) = k - 1]]

\* the opportunity satisfies every flag of the three that is true
SatisfiesFlags(opp, flags) ==
    /\ flags.fullyFunded => opp.fullyFunded
    /\ flags.international => opp.international
    /\ flags.hasSupervisor => IsSome(opp.supervisor)

FlaggedIndices == {i \in 1..Len(arg.opportunities) : SatisfiesFlags(arg.opportunities[i], arg.filters)}

\* C10: the filter stage never raises and keeps, in their original relative
\* order, opportunities that satisfy every true flag among fullyFunded,
\* international and hasSupervisor: exactly those when neither the search
\* query nor hasDeadline narrows the list (so exactly the fully-funded ones
\* when only fullyFunded is true); an empty input or no match gives the
\* empty sequence.
C10_FilterKeepsFlaggedInOrder ==
    FilterCalled =>
        /\ ret.kind = "value"
        /\ \E I \in SUBSET FlaggedIndices : ret.filtered = ElementsAt(arg.opportunities, I)
        /\ (Len(Trim(arg.searchQuery)) = 0 /\ ~arg.filters.hasDeadline)
              => ret.filtered = ElementsAt(arg.opportunities, FlaggedIndices)
        /\ (arg.searchQuery = <<>> /\ arg.filters.fullyFunded /\ ~arg.filters.international
                /\ ~arg.filters.hasDeadline /\ ~arg.filters.hasSupervisor)
              => ret.filtered =
                   ElementsAt(arg.opportunities,
                              {i \in 1..Len(arg.opportunities) : arg.opportunities[i].fullyFunded})
        /\ FlaggedIndices = {} => ret.filtered = <<>>

\* all three flags on, no search: of two opportunities the first fails a
\* flag and is dropped, the second is kept
C10_Witness ==
    /\ FilterCalled
    /\ arg.searchQuery = <<>>
    /\ arg.filters.fullyFunded /\ arg.filters.international /\ arg.filters.hasSupervisor
    /\ ~arg.filters.hasDeadline
    /\ Len(arg.opportunities) = 2
    /\ IsSome(arg.opportunities[1].supervisor) /\ ~arg.opportunities[1].fullyFunded
    /\ ret.filtered = <<arg.opportunities[2]>>

NoFlags ==
    /\ ~arg.filters.fullyFunded /\ ~arg.filters.international
    /\ ~arg.filters.hasDeadline /\ ~arg.filters.hasSupervisor

\* the indices of the opportunities the search step is to keep: all of them
\* when the query is blank, else those with the lower-cased query inside one
\* of the four lower-cased fields
SearchKept ==
    IF Trim(arg.searchQuery) = <<>> THEN 1..Len(arg.opportunities)
    ELSE {i \in 1..Len(arg.opportunities) :
            \E field \in {arg.opportunities[i].title, arg.opportunities[i].university,
                          arg.opportunities[i].department, arg.opportunities[i].description} :
                Includes(ToLowerCase(field), ToLowerCase(arg.searchQuery))}

\* C11: a query that is empty after trimming removes nothing in the search
\* step; otherwise an opportunity is kept iff the lower-cased query is a
\* substring of its lower-cased title, university, department or description.
\* (With no flag set the filter stage is the search step alone; with flags
\* the result lies within what the search step keeps.)
C11_SearchKeepsMatches ==
    FilterCalled =>
        /\ \E I \in SUBSET SearchKept : ret.filtered = ElementsAt(arg.opportunities, I)
        /\ NoFlags => ret.filtered = ElementsAt(arg.opportunities, SearchKept)

\* "QUANTUM" against a department "Quantum Physics" under a title "Robotics":
\* kept, while the opportunity before it matches in no field
C11_Witness ==
    /\ FilterCalled /\ NoFlags
    /\ arg.searchQuery = Str_QUANTUM
    /\ Len(arg.opportunities) = 2
    /\ arg.opportunities[1].department = Str_Physics
    /\ arg.opportunities[1].title = Str_Robotics
    /\ arg.opportunities[2].department = Str_QuantumPhysics
    /\ arg.opportunities[2].title = Str_Robotics
    /\ ret.filtered = <<arg.opportunities[2]>>

\* a deadline that is there: neither null / undefined nor the empty string
DeadlinePresent(opp) == IsSome(opp.deadline) /\ Get(opp.deadline) # <<>>

\* C12: with hasDeadline true an opportunity passes the hasDeadline predicate
\* iff its deadline is present; none with a present deadline is excluded.
C12_HasDeadlineKeepsPresent ==
    (/\ FilterCalled
     /\ Trim(arg.searchQuery) = <<>>
     /\ arg.filters.hasDeadline
     /\ ~arg.filters.fullyFunded /\ ~arg.filters.international /\ ~arg.filters.hasSupervisor)
    => ret.filtered =
         ElementsAt(arg.opportunities,
                    {i \in 1..Len(arg.opportunities) : DeadlinePresent(arg.opportunities[i])})

Occurrences(s, x) == Cardinality({k \in 1..Len(s) : s[k] = x})
IsPermutation(s, t) ==
    /\ Len(s) = Len(t)
    /\ \A k \in 1..Len(s) : Occurrences(s, s[k]) = Occurrences(t, s[k])

\* C13: the array returned is a permutation of the filtered items, and the
\* component's opportunities array is after the call what it was before, for
\* both sort keys.
C13_SortPermutesAndKeepsInput ==
    FilterCalled =>
        /\ IsPermutation(ret.val, ret.filtered)
        /\ ret.opportunities = arg.opportunities

\* no filter at work, and the sort changed the order
C13_Witness ==
    /\ FilterCalled /\ NoFlags
    /\ Trim(arg.searchQuery) = <<>>
    /\ Len(arg.opportunities) = 2
    /\ ret.val = <<arg.opportunities[2], arg.opportunities[1]>>
    /\ ret.val # arg.opportunities
    /\ ret.opportunities = arg.opportunities

\* the date key as claimed: postedDate if present, else deadline if
\* present, else epoch zero
HasPosted(opp) == IsSome(opp.postedDate) /\ Get(opp.postedDate) # <<>>
ClaimedDateKey(opp) ==
    IF HasPosted(opp) THEN NewDate(Get(opp.postedDate))
    ELSE IF DeadlinePresent(opp) THEN NewDate(Get(opp.deadline))
    ELSE TimeValue(0)
HasNoDate(opp) == ~HasPosted(opp) /\ ~DeadlinePresent(opp)
HasValidDate(opp) == ~HasNoDate(opp) /\ ~ClaimedDateKey(opp).nan

\* C14: with sortBy = "date" the output is in descending order of the date
\* key, and every item with neither postedDate nor deadline comes after
\* every item with a usable date.
C14_DateDescending ==
    (FilterCalled /\ arg.sortBy = "date") =>
        /\ \A i, j \in 1..Len(ret.val) :
              (i < j /\ ~ClaimedDateKey(ret.val[i]).nan /\ ~ClaimedDateKey(ret.val[j]).nan)
                 => ClaimedDateKey(ret.val[i]).t >= ClaimedDateKey(ret.val[j]).t
        /\ \A i, j \in 1..Len(ret.val) :
              (HasNoDate(ret.val[i]) /\ HasValidDate(ret.val[j])) => j < i

\* C15: a malformed date never makes the date sort raise, and every item
\* whose date is malformed or absent comes after all items with a valid
\* date, for every input order.
C15_MalformedDatesLast ==
    (FilterCalled /\ arg.sortBy = "date") =>
        /\ ret.kind = "value"
        /\ \A i, j \in 1..Len(ret.val) :
              (~HasValidDate(ret.val[i]) /\ HasValidDate(ret.val[j])) => j < i

\* the score key as claimed: the cached score, 32 without one
ClaimedScoreKey(opp) ==
    IF opp.id \in DOMAIN arg.sortedScores THEN arg.sortedScores[opp.id] ELSE 32

\* C16: with sortBy = "compatibility" the output is in descending order of
\* the cached score, 32 standing for every item without one.
C16_CompatibilityDescending ==
    (FilterCalled /\ arg.sortBy = "compatibility") =>
        \A i, j \in 1..Len(ret.val) :
            i < j => ClaimedScoreKey(ret.val[i]) >= ClaimedScoreKey(ret.val[j])

\* an unscored opportunity in front of a scored one: the sort swaps them
C16_Witness ==
    /\ FilterCalled /\ arg.sortBy = "compatibility"
    /\ Len(ret.filtered) = 2
    /\ ret.filtered[1].id \notin DOMAIN arg.sortedScores
    /\ ret.filtered[2].id \in DOMAIN arg.sortedScores
    /\ ret.val = <<ret.filtered[2], ret.filtered[1]>>

\* the elements of s that are a or b, in the order of s
Only(s, a, b) ==
    LET Is(x) == x = a \/ x = b
    IN  SelectSeq(s, Is)
EqualKeys(a, b) ==
    IF arg.sortBy = "compatibility" THEN ClaimedScoreKey(a) = ClaimedScoreKey(b)
    ELSE /\ ~ClaimedDateKey(a).nan /\ ~ClaimedDateKey(b).nan
         /\ ClaimedDateKey(a).t = ClaimedDateKey(b).t

\* C17: the sort is stable for both sort keys: two opportunities with equal
\* sort keys keep in the output the relative order they have in the input.
C17_SortIsStable ==
    FilterCalled =>
        \A i, j \in 1..Len(ret.filtered) :
            EqualKeys(ret.filtered[i], ret.filtered[j])
               => Only(ret.val, ret.filtered[i], ret.filtered[j])
                    = Only(ret.filtered, ret.filtered[i], ret.filtered[j])

-----------------------------------------------------------------------------
(* Properties of the page's score cache (Spec) *)

OpportunityIds == {opportunities[k].id : k \in 1..Len(opportunities)}
\* the page shows a loaded list and nothing is in flight
PageLoaded == fn = "Opportunities" /\ ~loading /\ Len(pending) = 0 /\ Len(opportunities) > 0

\* C18: when storage holds no profile or no statement of purpose, every
\* loaded opportunity's score, as shown on its card and as used by the
\* compatibility sort, is 32 + (hashCode(id) % 60), a value of 32..91.
C18_NoProfileScoreIsBoundedHash ==
    (PageLoaded /\ ~ProfileHasSop(storedProfile)) =>
        \A id \in OpportunityIds :
            /\ CompatibilityScore(id) = 32 + NumMod(HashCode(id), 60)
            /\ CompatibilityScore(id) \in 32..91

\* C19: every value ever stored in sortedScores is an integer of 32..91, and
\* every store for one opportunity id, over any loads and searches, stores
\* the same value.
C19_StoredScoresBoundedAndStable ==
    fn = "Opportunities" =>
        /\ \A stored \in everStored : stored[2] \in 32..91
        /\ \A s1, s2 \in everStored : s1[1] = s2[1] => s1[2] = s2[2]

\* the cache was computed for one list and computed again for another that
\* shares ids with it
C19_Witness ==
    /\ PageLoaded
    /\ DOMAIN sortedScores = OpportunityIds
    /\ \E stored \in everStored : stored[1] \notin OpportunityIds
    /\ \A id \in OpportunityIds : <<id, sortedScores[id]>> \in everStored

\* C20: sortedScores is cleared when the opportunity set or the profile
\* changes: once opportunities is replaced (an empty search result included)
\* the cache holds no entry of an opportunity that is not in the new set, and
\* once the stored profile changes it holds no entry at all.
C20_CacheClearedOnChange ==
    [][fn = "Opportunities" =>
         /\ opportunities' # opportunities => DOMAIN sortedScores' \subseteq
                {opportunities'[k].id : k \in 1..Len(opportunities')}
         /\ storedProfile' # storedProfile => DOMAIN sortedScores' = {}]_vars

-----------------------------------------------------------------------------
(* Properties of searchOpportunities (SpecSearch) *)

SearchCalled == fn = "searchOpportunities" /\ ret.kind # "pending"

\* C21: within the collection searchOpportunities returns, ids are unique:
\* for every keyword the three generated ids opp-<generateScore(keyword + d)>,
\* d = '1', '2', '3', are pairwise distinct.
C21_IdsUnique ==
    SearchCalled =>
        \A i, j \in 1..Len(ret.opportunities) :
            ret.opportunities[i].id = ret.opportunities[j].id => i = j

\* the mock opportunities that satisfy every flag that is on
SatisfiesSearchFlags(opp) ==
    /\ arg.filters.fullyFunded => opp.fullyFunded
    /\ arg.filters.international => opp.international
    /\ arg.filters.hasDeadline => Len(opp.deadline) > 0
    /\ arg.filters.hasSupervisor => Len(opp.supervisor) > 0
ValidDeadline(opp) == ~NewDate(opp.deadline).nan

-----------------------------------------------------------------------------
(* Properties of the page's requests (Spec) *)

\* C25: whenever a fetchOpportunities or handleSearch request is pending (its
\* simulated delay has not elapsed) the loading flag is true, in every
\* interleaving, a second request started while one is in flight included.
C25_LoadingWhilePending ==
    (fn = "Opportunities" /\ Len(pending) > 0) => loading

-----------------------------------------------------------------------------
(* Properties of the saved list (SpecSaved) *)

\* the step is a call of the handler that set savedOpportunities
SavedCallStep(handler) ==
    /\ arg'.handler = handler
    /\ <<arg, savedOpportunities>>' # <<arg, savedOpportunities>>

\* C24: choosing a status s in the dropdown of the card of a saved
\* opportunity with id k leaves the saved record with id k with status = s
\* and every other saved record unchanged: the value stored is the chosen
\* option, never the opportunity id.
C24_ChosenStatusIsStored ==
    [][SavedCallStep("onStatusChange") =>
         /\ Len(savedOpportunities') = Len(savedOpportunities)
         /\ \A k \in 1..Len(savedOpportunities) :
               savedOpportunities'[k] =
                  IF savedOpportunities[k].id = arg'.id
                  THEN WithStatus(savedOpportunities[k], Get(arg'.status))
                  ELSE savedOpportunities[k]]_vars

NoDuplicateIds(saved) ==
    \A i, j \in 1..Len(saved) : saved[i].id = saved[j].id => i = j

\* C26: from a saved list without duplicate ids, after any sequence of
\* handleSaveOpportunity calls the list holds at most one record per id: a
\* call for an id already saved removes that record and changes no other, a
\* call for an unsaved opportunity appends it at the end and changes no other.
C26_SaveTogglesOneRecord ==
    /\ [](fn = "Opportunities" => NoDuplicateIds(savedOpportunities))
    /\ [][SavedCallStep("handleSaveOpportunity") =>
            IF IsOpportunitySaved(arg'.id)
            THEN \E k \in 1..Len(savedOpportunities) :
                    /\ savedOpportunities[k].id = arg'.id
                    /\ savedOpportunities' = RemoveAt(savedOpportunities, k)
            ELSE /\ Len(savedOpportunities') = Len(savedOpportunities) + 1
                 /\ SubSeq(savedOpportunities', 1, Len(savedOpportunities)) = savedOpportunities
                 /\ savedOpportunities'[Len(savedOpportunities')].id = arg'.id]_vars

\* the last call removed a saved opportunity (the second one saved; its
\* status had been set) and left the other
C26_Witness ==
    /\ fn = "Opportunities"
    /\ arg.handler = "handleSaveOpportunity"
    /\ ~IsOpportunitySaved(arg.id)
    /\ Len(savedOpportunities) = 1
    /\ "status" \in DOMAIN savedOpportunities[1]

\* C27: clicking the saved/all button while the full list is displayed puts
\* exactly the saved opportunities on display (the button then reads 'Show
\* All'), clicking it while the saved list is displayed reloads the full
\* list, and the mode the button acts on always matches what is displayed.
C27_ToggleMatchesDisplay ==
    /\ []((fn = "Opportunities" /\ Len(savedOpportunities) > 0 /\ displayed \in {"all", "saved"})
            => (ToggleLabel = "Show All" <=> displayed = "saved"))
    /\ [][ToggleSaved =>
            /\ displayed = "all" =>
                  (opportunities' = savedOpportunities /\ ToggleLabel' = "Show All")
            /\ displayed = "saved" =>
                  (pending' = Append(pending, FetchRequest) /\ loading')]_vars

-----------------------------------------------------------------------------
(* Properties of the filter panel (SpecPanel) *)

FlagsOn == Cardinality({name \in FilterNames : filters[name]})

\* C28: the number shown in the filter badge equals the number of the flags
\* fullyFunded, international, hasDeadline, hasSupervisor that are switched
\* on, after any sequence of toggleFilter and 'Reset all' actions.
C28_BadgeCountsFlags ==
    (fn = "Opportunities" /\ IsSome(FilterBadge)) => Get(FilterBadge) = FlagsOn

-----------------------------------------------------------------------------
(* Properties of the deadline line (SpecDeadline) *)

\* C29: for every deadline and every current time the card applies the
\* 'deadline passed' (red) style if and only if formatDeadline's text is the
\* 'Deadline passed' text; a deadline reported as 'Deadline is today' is
\* never styled as passed.
C29_PassedStyleIffPassedText ==
    (fn = "OpportunityCard" /\ ret.text.kind # "pending") =>
        (ret.class = "text-red-500" <=> ret.text.template = "Deadline passed")

-----------------------------------------------------------------------------
(* Properties of CalendarPopup.handleSave (SpecCalendar) *)

\* handleSave was called with a list (or nothing) under 'calendarEvents'
CalendarSaved == fn = "CalendarPopup.handleSave" /\ ret.kind # "pending" /\ arg.stored.kind # "other"
ClosingCalls == IF arg.props.onClose THEN << <<"onClose">> >> ELSE <<>>

\* C30: without an onSave callback handleSave appends exactly one event, with
\* the component's date, title, description and eventType, to the end of the
\* stored 'calendarEvents' list and leaves every stored event unchanged and
\* in order; with onSave the stored list is unchanged and onSave receives the
\* event; in both cases onClose, if given, is called afterwards.
C30_HandleSaveAppendsOrCallsBack ==
    CalendarSaved =>
        /\ ret.kind = "value"
        /\ IF arg.props.onSave
           THEN /\ ret.stored = arg.stored
                /\ Len(ret.calls) = 1 + Len(ClosingCalls)
                /\ ret.calls[1][1] = "onSave"
                /\ ret.calls[1][2].date = arg.state.date
                /\ ret.calls[1][2].title = arg.state.title
                /\ ret.calls[1][2].description = arg.state.description
                /\ ret.calls[1][2].eventType = arg.state.eventType
                /\ SubSeq(ret.calls, 2, Len(ret.calls)) = ClosingCalls
           ELSE /\ ret.stored.kind = "array"
                /\ Len(ret.stored.items) = Len(arg.stored.items) + 1
                /\ SubSeq(ret.stored.items, 1, Len(arg.stored.items)) = arg.stored.items
                /\ LET event == ret.stored.items[Len(ret.stored.items)]
                   IN  /\ ParseISO(SubSeq(event.date, 1, 10)) = TimeValue(arg.state.date.day)
                       /\ DigitsValue(event.date, 12, 13) = arg.state.date.hour
                       /\ event.title = arg.state.title
                       /\ event.description = arg.state.description
                       /\ event.eventType = arg.state.eventType
                /\ ret.calls = ClosingCalls

\* two events were stored, no onSave was given: a third is stored after them
\* and onClose is called
C30_Witness ==
    /\ CalendarSaved
    /\ ~arg.props.onSave /\ arg.props.onClose
    /\ Len(arg.stored.items) = 2
    /\ arg.stored.items[1] # arg.stored.items[2]
    /\ Len(ret.stored.items) = 3
    /\ ret.calls = << <<"onClose">> >>

=============================================================================
